---- MODULE Spec2Model ----
(***************************************************************************)
(* Model of the credit-risk scoring service: the versioned manifest of     *)
(* artifact bundles and the three trainers that write it, the loading and  *)
(* reloading of the live scorer, batch scoring, and the feature pipeline   *)
(* (imputation, one-hot mapping, column filling, training-time encoding).  *)
(*                                                                         *)
(* Several specifications share the module and its variables:              *)
(*   Spec       the trainers and the manifest;                             *)
(*   SpecLoad   loading and reloading the live scorers;                    *)
(*   SpecBatch  batch scoring requests while the scorers are reloaded;     *)
(*   SpecFeat   the feature pipeline (impute / map / fill / retrain);      *)
(*   SpecWrite  the steps of concurrent manifest writers, and readers;     *)
(*   SpecPredict  the probability and the risk band of one scoring call;   *)
(*   SpecDrift  one drift check of an input against the baseline table;    *)
(*   SpecImpute  impute applied to a payload and again to its result;      *)
(*   SpecExplain  the attribution map of one scoring call;                 *)
(*   SpecServe  scoring and reload requests beside a retraining run;       *)
(*   SpecBatchResult  the response of one batch scoring request;           *)
(*   SpecImport  one bulk import, chunk by chunk;                          *)
(*   SpecReadiness  one readiness check of a predictions table;            *)
(*   SpecTrigger  retraining triggers on a growing predictions table;      *)
(*   SpecSchema  inserts of loan applications with dynamic columns;        *)
(*   SpecSave  overlapping runs write artifacts, then the manifest.        *)
(***************************************************************************)
EXTENDS Integers, Sequences, FiniteSets, TLC

VARIABLES
    manifest,           \* models/manifest.json: [fmt, entries]
    files,              \* artifact files on disk: set of [kind, ver, uid, ok]
    clock,              \* UTC wall clock, in seconds
    env,                \* deployment: [tz, dataset, app]
    db,                 \* outcome store: [total, labeled]
    runs,               \* number of training runs started so far
    lastRun,            \* result of the latest training run
    predictor,          \* live static scorer (CreditRiskPredictor or None)
    dynamic_predictor,  \* live dynamic scorer (DynamicCreditRiskPredictor or None)
    rpc,                \* position of each reload call
    faults,             \* number of artifact files lost or damaged so far
    req,                \* the batch scoring request in flight
    raw,                \* feature pipeline: the payload of the scoring request
    imputer,            \* feature pipeline: the reference files the FeatureImputer found
    columns,            \* feature pipeline: column list of the live bundle
    pending,            \* feature pipeline: column list of the newest bundle on disk
    store,              \* feature pipeline: the stored predictions
    scored,             \* feature pipeline: what the latest scoring call computed
    wr,                 \* manifest writers: position and locals of each retraining run
    obs,                \* what the latest reader of manifest.json found
    tables,             \* database: committed rows and the columns of loan_applications
    session,            \* database: the import or insert in progress and its open transaction
    call,               \* the arguments of the function call under study
    ret                 \* what that call returned

lifeVars == <<manifest, files, clock, env, db, runs, lastRun, predictor,
              dynamic_predictor, rpc, faults, req>>
featVars == <<raw, imputer, columns, pending, store, scored>>
ioVars == <<wr, obs, tables, session>>
fnVars == <<call, ret>>
vars == <<manifest, files, clock, env, db, runs, lastRun, predictor,
          dynamic_predictor, rpc, faults, req, raw, imputer, columns, pending,
          store, scored, wr, obs, tables, session, call, ret>>

---------------------------------------------------------------------------
(* Bounds of the lifecycle model *)

MaxRuns == 3            \* training runs started after Init
MaxTicks == 2           \* seconds the clock advances after Init
MaxFaults == 1          \* artifact files lost or damaged
MaxReloads == 2         \* reload calls that may overlap
MaxItems == 1           \* items of a batch scoring request
MaxLoadRuns == 1        \* training runs in the loading and scoring specifications

(* Program constants *)

KeepLast == 10          \* retrain_if_needed keeps the 10 most recent entries
MinSamplesDefault == 100
MinFeedbackPctDefault == 10     \* min_feedback_ratio 0.1, in percent

Kinds == {"model", "scaler", "features"}
LegacyVer == 0          \* the unversioned file names (credit_risk_model.pkl, ...)

Last(s) == s[Len(s)]

---------------------------------------------------------------------------
(* Timestamps.  A manifest entry's "timestamp" is a string; the model keeps *)
(* what decides the order of two such strings: the format, the wall-clock   *)
(* second and the order of the clock readings within a second.              *)

\* datetime.now(): local wall clock
LocalNow == clock + env.tz

\* datetime.utcnow()
UtcNow == clock

\* Python's str comparison of two "timestamp" values of the same year:
\* "2026-11-05T10:00:00.123456" (iso), the same with "Z" (isoZ), and
\* "20261105T100000Z" (compact); '-' sorts before every digit.
TsLess(a, b) ==
    IF a.fmt = "compact" /\ b.fmt = "compact" THEN a.sec < b.sec
    ELSE IF a.fmt = "compact" THEN FALSE
    ELSE IF b.fmt = "compact" THEN TRUE
    ELSE \/ a.sec < b.sec
         \/ a.sec = b.sec /\ a.seq < b.seq
         \/ a.sec = b.sec /\ a.seq = b.seq /\ a.fmt = "iso" /\ b.fmt = "isoZ"

RECURSIVE InsertByTs(_, _)
InsertByTs(x, s) ==
    IF s = <<>> THEN <<x>>
    ELSE IF TsLess(x.ts, Head(s).ts) THEN <<x>> \o s
    ELSE <<Head(s)>> \o InsertByTs(x, Tail(s))

\* sorted(manifest, key=lambda x: x.get("timestamp")): a stable sort
RECURSIVE SortByTs(_)
SortByTs(s) ==
    IF s = <<>> THEN <<>>
    ELSE InsertByTs(Last(s), SortByTs(SubSeq(s, 1, Len(s) - 1)))

\* s[-n:]
TakeLast(s, n) == IF Len(s) <= n THEN s ELSE SubSeq(s, Len(s) - n + 1, Len(s))

---------------------------------------------------------------------------
(* Manifest entries.  paths = TRUE when the entry has the keys "model",     *)
(* "scaler" and "features" the loader reads; ver is the version in the      *)
(* three file names.                                                        *)

DbEntry(uid) ==
    [uid |-> uid, source |-> "database_retraining", paths |-> TRUE,
     ver |-> LocalNow, ts |-> [fmt |-> "iso", sec |-> LocalNow, seq |-> uid]]

AgentEntryAt(uid, sec) ==
    [uid |-> uid, source |-> "retrain_agent", paths |-> TRUE,
     ver |-> sec, ts |-> [fmt |-> "isoZ", sec |-> sec, seq |-> uid]]

AgentEntry(uid) == AgentEntryAt(uid, UtcNow)

\* FlexibleModelTrainer's manifest document: keys model_path, scaler_path,
\* feature_names_path, and a compact timestamp
FlexDoc(uid) ==
    [uid |-> uid, source |-> "flexible_training", paths |-> FALSE,
     ver |-> LocalNow, ts |-> [fmt |-> "compact", sec |-> LocalNow, seq |-> uid]]

ArtifactsOf(ver, uid) == {[kind |-> k, ver |-> ver, uid |-> uid, ok |-> TRUE] : k \in Kinds}

\* joblib.dump / open(path, "w"): the file at a path is replaced
WriteFiles(fs, new) ==
    {f \in fs : ~\E g \in new : g.kind = f.kind /\ g.ver = f.ver} \cup new

---------------------------------------------------------------------------
(* Loading a bundle: CreditRiskPredictor._load_model *)

NoPart == [ver |-> 0, uid |-> 0]
NoEntry == [uid |-> 0, ver |-> 0]

\* the scorer reference is None
NoPredictor ==
    [loaded |-> FALSE, entry |-> NoEntry, model |-> NoPart, scaler |-> NoPart,
     features |-> NoPart]

\* os.path.exists(path), then joblib.load / json.load of it
FileStatus(fs, k, ver) ==
    IF \E f \in fs : f.kind = k /\ f.ver = ver
    THEN IF (CHOOSE f \in fs : f.kind = k /\ f.ver = ver).ok THEN "ok" ELSE "bad"
    ELSE "missing"

FileContent(fs, k, ver) == (CHOOSE f \in fs : f.kind = k /\ f.ver = ver).uid

\* The loader reads the three artifacts of the manifest's last entry in the
\* order model, scaler, features; a missing file is skipped with a warning,
\* an unreadable one raises and ends the manifest phase.  Every part still
\* None afterwards is read from the unversioned fallback path, and only a
\* missing or unreadable fallback file makes the load fail.
LoadModel(m, fs) ==
    LET hasLatest == m.fmt = "list" /\ Len(m.entries) > 0
        latest == Last(m.entries)
        st(k) == IF hasLatest /\ latest.paths THEN FileStatus(fs, k, latest.ver)
                 ELSE "missing"
        mRaised == st("model") = "bad"
        sRaised == ~mRaised /\ st("scaler") = "bad"
        fromManifest(k) ==
            CASE k = "model" -> st("model") = "ok"
              [] k = "scaler" -> ~mRaised /\ st("scaler") = "ok"
              [] k = "features" -> ~mRaised /\ ~sRaised /\ st("features") = "ok"
        part(k) ==
            IF fromManifest(k)
            THEN [ver |-> latest.ver, uid |-> FileContent(fs, k, latest.ver)]
            ELSE [ver |-> LegacyVer, uid |-> FileContent(fs, k, LegacyVer)]
        allOk == \A k \in Kinds : fromManifest(k) \/ FileStatus(fs, k, LegacyVer) = "ok"
    IN  IF allOk
        THEN [loaded |-> TRUE,
              entry |-> IF hasLatest THEN [uid |-> latest.uid, ver |-> latest.ver]
                        ELSE NoEntry,
              model |-> part("model"), scaler |-> part("scaler"),
              features |-> part("features")]
        ELSE NoPredictor

---------------------------------------------------------------------------
(* The three manifest writers *)

\* DatabaseRetrainer._update_manifest: load the list (a legacy dict document
\* becomes a one-element list), append, write back
UpdateManifest(m, e) ==
    [fmt |-> "list",
     entries |-> Append(IF m.fmt = "absent" THEN <<>> ELSE m.entries, e)]

\* retrain_if_needed: append, sort by "timestamp", keep the last KeepLast
AgentManifest(m, e) ==
    [fmt |-> "list",
     entries |-> TakeLast(SortByTs(Append(IF m.fmt = "absent" THEN <<>> ELSE m.entries, e)),
                          KeepLast)]

\* FlexibleModelTrainer.train_model: the manifest file is overwritten by one
\* dict document
FlexManifest(m, e) == [fmt |-> "dict", entries |-> <<e>>]

---------------------------------------------------------------------------
(* Readiness gate and the database retraining run *)

MinSamplesChoices == {40, MinSamplesDefault}
MinPctChoices == {MinFeedbackPctDefault}

\* feedback_ratio >= min_feedback_ratio, the ratio being 0 for an empty store
RatioAtLeast(pct) ==
    IF db.total > 0 THEN db.labeled * 100 >= pct * db.total ELSE pct <= 0

\* check_retraining_readiness()["is_ready"]
IsReady(minS, pct) == db.total >= minS /\ RatioAtLeast(pct)

\* retrain_model's gate: the run refuses only when the original dataset is
\* not included
Refuses(minS, pct, inclOrig) == ~inclOrig /\ ~IsReady(minS, pct)

\* extract_training_data finds no record at all (raises ValueError)
NoTrainingData(inclOrig) == db.labeled = 0 /\ ~(inclOrig /\ env.dataset)

\* status of a retrain_model run; fitOk: splitting, fitting and scoring the
\* estimator raised nothing
DbStatus(minS, pct, inclOrig, fitOk) ==
    IF Refuses(minS, pct, inclOrig) THEN "insufficient_data"
    ELSE IF NoTrainingData(inclOrig) \/ ~fitOk THEN "error"
    ELSE "success"

\* uid 1 is the run that wrote the seed entry of Init
NextUid == runs + 2

RunRecord(kind, status, ready, inclOrig, save, defaults) ==
    [uid |-> NextUid, kind |-> kind, status |-> status, ready |-> ready,
     inclOrig |-> inclOrig, save |-> save, defaults |-> defaults]

\* a retrain_model that also swaps the live scorers for the new bundle
RetrainModelReloading(minS, pct, inclOrig, save, fitOk) ==
    LET status == DbStatus(minS, pct, inclOrig, fitOk)
        saved == status = "success" /\ save
    IN  /\ runs < MaxRuns
        /\ runs' = runs + 1
        /\ lastRun' = RunRecord("db", status, IsReady(minS, pct), inclOrig, save,
                                minS = MinSamplesDefault /\ pct = MinFeedbackPctDefault
                                /\ inclOrig /\ save)
        /\ files' = IF saved THEN WriteFiles(files, ArtifactsOf(LocalNow, NextUid)) ELSE files
        /\ manifest' = IF saved THEN UpdateManifest(manifest, DbEntry(NextUid)) ELSE manifest
        /\ predictor' = LoadModel(manifest', files')
        /\ dynamic_predictor' = LoadModel(manifest', files')
        /\ UNCHANGED <<clock, env, db, rpc, faults, req>>
        /\ UNCHANGED <<featVars, ioVars, fnVars>>

\* DatabaseRetrainer.retrain_model (also reached through retrain_from_database)
RetrainModel(minS, pct, inclOrig, save, fitOk) ==
    LET status == DbStatus(minS, pct, inclOrig, fitOk)
        saved == status = "success" /\ save
    IN  /\ runs < MaxRuns
        /\ runs' = runs + 1
        /\ lastRun' = RunRecord("db", status, IsReady(minS, pct), inclOrig, save,
                                minS = MinSamplesDefault /\ pct = MinFeedbackPctDefault
                                /\ inclOrig /\ save)
        /\ files' = IF saved THEN WriteFiles(files, ArtifactsOf(LocalNow, NextUid)) ELSE files
        /\ manifest' = IF saved THEN UpdateManifest(manifest, DbEntry(NextUid)) ELSE manifest
        /\ UNCHANGED <<clock, env, db, predictor, dynamic_predictor, rpc, faults, req>>
        /\ UNCHANGED <<featVars, ioVars, fnVars>>

\* retrain_agent.retrain_if_needed: reads the dataset, fits, writes the
\* versioned and the unversioned artifacts, then rewrites the manifest
\* (manifest.append raises on a dict document, after the artifacts are written)
RetrainIfNeeded(fitOk) ==
    LET trained == env.dataset /\ fitOk
        appended == trained /\ manifest.fmt # "dict"
    IN  /\ runs < MaxRuns
        /\ runs' = runs + 1
        /\ lastRun' = RunRecord("agent", IF appended THEN "success" ELSE "error",
                                TRUE, TRUE, TRUE, TRUE)
        /\ files' = IF trained
                    THEN WriteFiles(files, ArtifactsOf(UtcNow, NextUid)
                                           \cup ArtifactsOf(LegacyVer, NextUid))
                    ELSE files
        /\ manifest' = IF appended THEN AgentManifest(manifest, AgentEntry(NextUid))
                       ELSE manifest
        /\ UNCHANGED <<clock, env, db, predictor, dynamic_predictor, rpc, faults, req>>
        /\ UNCHANGED <<featVars, ioVars, fnVars>>

\* FlexibleModelTrainer.train_model on an uploaded CSV
TrainModel(fitOk) ==
    /\ runs < MaxRuns
    /\ runs' = runs + 1
    /\ lastRun' = RunRecord("flex", IF fitOk THEN "success" ELSE "error",
                            TRUE, TRUE, TRUE, TRUE)
    /\ files' = IF fitOk THEN WriteFiles(files, ArtifactsOf(LocalNow, NextUid)) ELSE files
    /\ manifest' = IF fitOk THEN FlexManifest(manifest, FlexDoc(NextUid)) ELSE manifest
    /\ UNCHANGED <<clock, env, db, predictor, dynamic_predictor, rpc, faults, req>>
    /\ UNCHANGED <<featVars, ioVars, fnVars>>

---------------------------------------------------------------------------
(* Environment: time passes, records arrive in the outcome store *)

StartClock == 2

Tick ==
    /\ clock < StartClock + MaxTicks
    /\ clock' = clock + 1
    /\ UNCHANGED <<manifest, files, env, db, runs, lastRun, predictor,
                   dynamic_predictor, rpc, faults, req>>
    /\ UNCHANGED <<featVars, ioVars, fnVars>>

\* <<records added, of which labeled>> by a bulk import or by scoring calls
\* followed by feedback
ImportShapes == {<<40, 1>>, <<60, 0>>, <<60, 60>>}

ImportRecords(n, k) ==
    /\ db.total + n <= MinSamplesDefault
    /\ db' = [total |-> db.total + n, labeled |-> db.labeled + k]
    /\ UNCHANGED <<manifest, files, clock, env, runs, lastRun, predictor,
                   dynamic_predictor, rpc, faults, req>>
    /\ UNCHANGED <<featVars, ioVars, fnVars>>

---------------------------------------------------------------------------
(* Reload: ModelManager.load_models (routes) and main.reload_model (main).  *)
(* Both build the static scorer, then the dynamic one, each with a load of  *)
(* its own.  ModelManager sets a scorer that failed to load to None;        *)
(* main.reload_model sets both to None when either load fails.              *)

Reloads == 1..MaxReloads

ReloadStatic(r) ==
    LET p == LoadModel(manifest, files)
    IN  /\ rpc[r] = "idle"
        /\ predictor' = p
        /\ dynamic_predictor' = IF env.app = "main" /\ ~p.loaded THEN NoPredictor
                                ELSE dynamic_predictor
        /\ rpc' = [rpc EXCEPT ![r] = IF env.app = "main" /\ ~p.loaded THEN "idle"
                                     ELSE "static_done"]
        /\ UNCHANGED <<manifest, files, clock, env, db, runs, lastRun, faults, req>>
        /\ UNCHANGED <<featVars, ioVars, fnVars>>

ReloadDynamic(r) ==
    LET p == LoadModel(manifest, files)
    IN  /\ rpc[r] = "static_done"
        /\ dynamic_predictor' = p
        /\ predictor' = IF env.app = "main" /\ ~p.loaded THEN NoPredictor ELSE predictor
        /\ rpc' = [rpc EXCEPT ![r] = "idle"]
        /\ UNCHANGED <<manifest, files, clock, env, db, runs, lastRun, faults, req>>
        /\ UNCHANGED <<featVars, ioVars, fnVars>>

\* An artifact of the manifest's last entry is deleted or damaged on disk
LoseArtifact(f, how) ==
    /\ faults < MaxFaults
    /\ manifest.fmt = "list" /\ Len(manifest.entries) > 0
    /\ f \in files /\ f.ok /\ f.ver = Last(manifest.entries).ver
    /\ faults' = faults + 1
    /\ files' = IF how = "missing" THEN files \ {f}
                ELSE (files \ {f}) \cup {[f EXCEPT !.ok = FALSE]}
    /\ UNCHANGED <<manifest, clock, env, db, runs, lastRun, predictor,
                   dynamic_predictor, rpc, req>>
    /\ UNCHANGED <<featVars, ioVars, fnVars>>

---------------------------------------------------------------------------
(* Batch scoring: predict_risk_batch.  The routes version reads the scorer  *)
(* once (ModelManager.get_dynamic_predictor()) and works on that object;    *)
(* main.py names the module globals dynamic_predictor and predictor at      *)
(* every use.                                                               *)

IdleReq == [pc |-> "idle", cap |-> NoPredictor, used |-> {}, left |-> 0, expl |-> FALSE]

Use(p, ks) == {[part |-> k, src |-> p[k]] : k \in ks}

\* the dynamic scorer a step of the request works on
CurDynamic == IF env.app = "main" THEN dynamic_predictor ELSE req.cap

\* the scorer that computes the attribution
CurExplainer == IF env.app = "main" THEN predictor ELSE req.cap

AfterItem(r) ==
    IF r.left > 1 THEN [r EXCEPT !.pc = "predict", !.left = r.left - 1]
    ELSE [r EXCEPT !.pc = "done", !.left = 0]

\* the None check at the start of the request
BatchBegin(n, expl) ==
    /\ req.pc = "idle"
    /\ dynamic_predictor.loaded
    /\ req' = [pc |-> "predict", cap |-> dynamic_predictor, used |-> {}, left |-> n,
               expl |-> expl]
    /\ UNCHANGED <<manifest, files, clock, env, db, runs, lastRun, predictor,
                   dynamic_predictor, rpc, faults>>
    /\ UNCHANGED <<featVars, ioVars, fnVars>>

\* dynamic_predictor.predict(...): impute, map to the scorer's columns,
\* scale, estimate; on None the item ends as an error
BatchPredict ==
    /\ req.pc = "predict"
    /\ req' = IF ~CurDynamic.loaded THEN AfterItem(req)
              ELSE LET r == [req EXCEPT !.used = @ \cup Use(CurDynamic, Kinds)]
                   IN  IF req.expl THEN [r EXCEPT !.pc = "map"] ELSE AfterItem(r)
    /\ UNCHANGED <<manifest, files, clock, env, db, runs, lastRun, predictor,
                   dynamic_predictor, rpc, faults>>
    /\ UNCHANGED <<featVars, ioVars, fnVars>>

\* the explanation's row: mapper.map_to_model_features, mapper.validate_and_fill
BatchMap ==
    /\ req.pc = "map"
    /\ req' = IF ~CurDynamic.loaded THEN AfterItem(req)
              ELSE [req EXCEPT !.pc = "shap",
                               !.used = @ \cup Use(CurDynamic, {"features"})]
    /\ UNCHANGED <<manifest, files, clock, env, db, runs, lastRun, predictor,
                   dynamic_predictor, rpc, faults>>
    /\ UNCHANGED <<featVars, ioVars, fnVars>>

\* get_shap_values: the explainer's own columns, scaler and estimator
BatchShap ==
    /\ req.pc = "shap"
    /\ req' = IF ~CurExplainer.loaded THEN AfterItem(req)
              ELSE AfterItem([req EXCEPT !.used = @ \cup Use(CurExplainer, Kinds)])
    /\ UNCHANGED <<manifest, files, clock, env, db, runs, lastRun, predictor,
                   dynamic_predictor, rpc, faults>>
    /\ UNCHANGED <<featVars, ioVars, fnVars>>

BatchEnd ==
    /\ req.pc = "done"
    /\ req' = IdleReq
    /\ UNCHANGED <<manifest, files, clock, env, db, runs, lastRun, predictor,
                   dynamic_predictor, rpc, faults>>
    /\ UNCHANGED <<featVars, ioVars, fnVars>>

---------------------------------------------------------------------------
(* The feature pipeline.  A Python dict is a function from its keys; a key  *)
(* bound to None is modelled as an absent key (impute reads every field     *)
(* with `.get(field) is None`, which does not tell the two apart).          *)
(* Amounts are whole numbers; loan_percent_income, a fraction in the code,  *)
(* is counted in hundredths (0.25 is 25).                                   *)

\* DynamicLoanApplication: the fields of the schema, in declaration order
NumericFields ==
    <<"person_age", "person_income", "person_emp_length", "loan_amnt",
      "loan_int_rate", "loan_percent_income", "cb_person_cred_hist_length">>

CatFields == <<"home_ownership", "loan_intent", "loan_grade", "default_on_file">>

Range(s) == {s[i] : i \in DOMAIN s}

\* DynamicFeatureMapper.categorical_features: the known labels of each field
categorical_features ==
    [person_home_ownership |-> {"RENT", "OWN", "MORTGAGE", "OTHER"},
     loan_intent |-> {"PERSONAL", "EDUCATION", "MEDICAL", "VENTURE",
                      "HOMEIMPROVEMENT", "DEBTCONSOLIDATION"},
     loan_grade |-> {"A", "B", "C", "D", "E", "F", "G"},
     cb_person_default_on_file |-> {"Y", "N"}]

\* the column of the original dataset (and the prefix of the serving
\* encoder) that corresponds to a field of the schema
DatasetColumn ==
    [home_ownership |-> "person_home_ownership",
     loan_intent |-> "loan_intent",
     loan_grade |-> "loan_grade",
     default_on_file |-> "cb_person_default_on_file"]

\* every label of the model, in the order Python sorts strings
SortedLabels ==
    <<"A", "B", "C", "D", "DEBTCONSOLIDATION", "E", "EDUCATION", "F", "G",
      "HOMEIMPROVEMENT", "MEDICAL", "MORTGAGE", "N", "OTHER", "OWN",
      "PERSONAL", "RENT", "UNKNOWN", "VENTURE", "XYZ", "Y">>

\* str.upper on the labels of the model
Upper(v) == IF v = "own" THEN "OWN" ELSE v

\* DynamicLoanApplication.model_dump(): the validator upper-cases the four
\* categorical fields
model_dump(payload) ==
    [f \in DOMAIN payload |->
        IF f \in Range(CatFields) THEN Upper(payload[f]) ELSE payload[f]]

numeric_defaults ==
    [person_age |-> 35, person_income |-> 50000, person_emp_length |-> 24,
     loan_amnt |-> 10000, loan_int_rate |-> 10, loan_percent_income |-> 25,
     cb_person_cred_hist_length |-> 5]

categorical_defaults ==
    [home_ownership |-> "RENT", loan_intent |-> "PERSONAL", loan_grade |-> "C",
     default_on_file |-> "N"]

\* _compute_historical_stats on data/credit_risk_dataset.csv: the medians of
\* its numeric columns and the modes of its text columns, keyed by the
\* dataset's column names
HistoricalMedians ==
    [person_age |-> [median |-> 26], person_income |-> [median |-> 55000],
     person_emp_length |-> [median |-> 4], loan_amnt |-> [median |-> 8000],
     loan_int_rate |-> [median |-> 11], loan_percent_income |-> [median |-> 15],
     cb_person_cred_hist_length |-> [median |-> 4]]

HistoricalModes ==
    [person_home_ownership |-> "MORTGAGE", loan_intent |-> "EDUCATION",
     loan_grade |-> "A", cb_person_default_on_file |-> "Y"]

\* models/feature_statistics.json as retrain_if_needed writes it
FeatureStatistics ==
    [person_age |-> [mean |-> 28], person_income |-> [mean |-> 66000],
     person_emp_length |-> [mean |-> 5], loan_amnt |-> [mean |-> 9600],
     loan_int_rate |-> [mean |-> 12], loan_percent_income |-> [mean |-> 17],
     cb_person_cred_hist_length |-> [mean |-> 6]]

\* FeatureImputer.__init__
FeatureImputer(statsFile, datasetFile) ==
    [stats |-> IF statsFile THEN FeatureStatistics ELSE <<>>,
     historical_stats |-> IF datasetFile THEN HistoricalMedians ELSE <<>>,
     categorical_modes |-> IF datasetFile THEN HistoricalModes ELSE <<>>]

\* FeatureImputer.impute, the imputed dict
impute(imp, data) ==
    LET derivable ==
            /\ "loan_percent_income" \notin DOMAIN data
            /\ "loan_amnt" \in DOMAIN data
            /\ "person_income" \in DOMAIN data
            /\ data["person_income"] > 0
        derived ==
            IF derivable
            THEN ("loan_percent_income" :>
                      (data["loan_amnt"] * 100) \div data["person_income"]) @@ data
            ELSE data
        numeric(f) ==
            IF f \in DOMAIN imp.historical_stats THEN imp.historical_stats[f].median
            ELSE IF f \in DOMAIN imp.stats /\ "mean" \in DOMAIN imp.stats[f]
                 THEN imp.stats[f].mean
            ELSE numeric_defaults[f]
        categorical(f) ==
            IF f \in DOMAIN imp.categorical_modes THEN imp.categorical_modes[f]
            ELSE categorical_defaults[f]
    IN  [f \in DOMAIN derived \cup DOMAIN numeric_defaults \cup DOMAIN categorical_defaults |->
            IF f \in DOMAIN derived THEN derived[f]
            ELSE IF f \in DOMAIN numeric_defaults THEN numeric(f)
            ELSE categorical(f)]

\* one indicator column of map_to_model_features: present when the key is in
\* the dict and its value is truthy
Indicator(data, field) ==
    IF field \in DOMAIN data /\ data[field] # ""
    THEN (DatasetColumn[field] \o "_" \o data[field]) :> 1
    ELSE <<>>

\* DynamicFeatureMapper.map_to_model_features
map_to_model_features(data) ==
    [f \in Range(NumericFields) \cap DOMAIN data |-> data[f]]
        @@ Indicator(data, "home_ownership")
        @@ Indicator(data, "loan_intent")
        @@ Indicator(data, "loan_grade")
        @@ Indicator(data, "default_on_file")

\* a fill that keeps only the expected columns the mapping produced
fill_produced_only(expected_features, mapped_features) ==
    LET kept == SelectSeq(expected_features, LAMBDA c : c \in DOMAIN mapped_features)
    IN  [i \in DOMAIN kept |-> <<kept[i], mapped_features[kept[i]]>>]

\* DynamicFeatureMapper.validate_and_fill: the complete dict, as the sequence
\* of its <<column, value>> items in insertion order
validate_and_fill(expected_features, mapped_features) ==
    [i \in DOMAIN expected_features |->
        <<expected_features[i],
          IF expected_features[i] \in DOMAIN mapped_features
          THEN mapped_features[expected_features[i]] ELSE 0>>]

\* pandas.get_dummies of one text column: one indicator column per label
\* found, in sorted order, the first one left out when drop_first is set
get_dummies(prefix, labels, drop_first) ==
    LET sorted == SelectSeq(SortedLabels, LAMBDA v : v \in labels)
        kept == IF drop_first /\ sorted # <<>> THEN Tail(sorted) ELSE sorted
    IN  [i \in DOMAIN kept |-> prefix \o "_" \o kept[i]]

\* the rows extract_training_data builds from data/credit_risk_dataset.csv:
\* the text columns renamed to the keys of the stored records; every known
\* label occurs in the dataset
OriginalRows ==
    LET base == [person_age |-> 26, person_income |-> 55000, person_emp_length |-> 4,
                 loan_amnt |-> 8000, loan_int_rate |-> 11, loan_percent_income |-> 15,
                 cb_person_cred_hist_length |-> 4, home_ownership |-> "RENT",
                 loan_intent |-> "EDUCATION", loan_grade |-> "A",
                 default_on_file |-> "N"]
    IN  UNION {{[base EXCEPT ![f] = v] : v \in categorical_features[DatasetColumn[f]]} :
               f \in Range(CatFields)}

\* DatabaseRetrainer.prepare_features on the records df (first the stored
\* predictions, in the key order of the schema, then the dataset rows): the
\* numeric columns stay, each text column is replaced by its indicator
\* columns, appended at the end and named after the record key
prepare_features(df) ==
    LET present(f) == \E r \in df : f \in DOMAIN r
        labels(f) == {IF f \in DOMAIN r THEN Upper(r[f]) ELSE "UNKNOWN" : r \in df}
        dummies(f) == IF present(f) THEN get_dummies(f, labels(f), FALSE) ELSE <<>>
    IN  SelectSeq(NumericFields, present)
            \o dummies(CatFields[1]) \o dummies(CatFields[2])
            \o dummies(CatFields[3]) \o dummies(CatFields[4])

\* the column list of the bundle retrain_if_needed trains on the dataset:
\* get_dummies(X, drop_first=True) over the dataset's own column names
ShippedColumns ==
    NumericFields
        \o get_dummies("person_home_ownership", categorical_features.person_home_ownership, TRUE)
        \o get_dummies("loan_intent", categorical_features.loan_intent, TRUE)
        \o get_dummies("loan_grade", categorical_features.loan_grade, TRUE)
        \o get_dummies("cb_person_default_on_file", categorical_features.cb_person_default_on_file, TRUE)

MaxScores == 2          \* scoring calls of the feature pipeline

NoColumns == [source |-> "none", names |-> <<>>]

NoScore == [n |-> 0, source |-> "none", imputed |-> <<>>, mapped |-> <<>>, row |-> <<>>]

\* predict_risk_dynamic: DynamicCreditRiskPredictor.predict on the dumped
\* payload, then the imputed dict is stored for later retraining
PredictDynamic ==
    LET raw_input_dict == model_dump(raw)
        imputed_data == impute(FeatureImputer(imputer.stats_file, imputer.dataset_file),
                               raw_input_dict)
        mapped_features == map_to_model_features(imputed_data)
        complete_features == validate_and_fill(columns.names, mapped_features)
    IN  /\ scored.n < MaxScores
        /\ scored' = [n |-> scored.n + 1, source |-> columns.source,
                      imputed |-> imputed_data, mapped |-> mapped_features,
                      row |-> complete_features]
        /\ store' = store \cup {[input_features |-> imputed_data, labeled |-> FALSE]}
        /\ UNCHANGED <<raw, imputer, columns, pending>>
        /\ UNCHANGED <<lifeVars, ioVars, fnVars>>

\* submit_feedback: the actual outcome of a stored prediction is recorded
SubmitFeedback(p) ==
    /\ p \in store /\ ~p.labeled
    /\ store' = (store \ {p}) \cup {[p EXCEPT !.labeled = TRUE]}
    /\ UNCHANGED <<raw, imputer, columns, pending, scored>>
    /\ UNCHANGED <<lifeVars, ioVars, fnVars>>

\* the records extract_training_data collects
TrainingRecords(inclOrig) ==
    {p.input_features : p \in {q \in store : q.labeled}}
        \cup (IF inclOrig /\ env.dataset THEN OriginalRows ELSE {})

\* the column list a successful retrain_model run saves with its bundle
RetrainColumns(inclOrig) ==
    /\ TrainingRecords(inclOrig) # {}
    /\ pending' = [source |-> "database_retraining",
                   names |-> prepare_features(TrainingRecords(inclOrig))]
    /\ UNCHANGED <<raw, imputer, columns, store, scored>>
    /\ UNCHANGED <<lifeVars, ioVars, fnVars>>

\* a reload builds the dynamic scorer's mapper from the newest bundle's
\* column list
ReloadColumns ==
    /\ pending.source # "none"
    /\ columns' = pending
    /\ UNCHANGED <<raw, imputer, pending, store, scored>>
    /\ UNCHANGED <<lifeVars, ioVars, fnVars>>

\* the payloads of the model: each field absent (or None) or supplied; three
\* of the plain numeric fields, and two of the text fields, come together
Opt(field, values) == {<<>>} \cup {field :> v : v \in values}

Payloads ==
    {a @@ b @@ c @@ d @@ e @@ f @@ g @@ h :
        a \in Opt("person_age", {30}),
        b \in Opt("person_income", {0, 80000}),
        c \in Opt("loan_amnt", {16000}),
        d \in Opt("loan_percent_income", {10}),
        e \in {<<>>, [person_emp_length |-> 60, loan_int_rate |-> 12,
                      cb_person_cred_hist_length |-> 3]},
        f \in Opt("home_ownership", {"own", "XYZ"}),
        g \in Opt("loan_intent", {"MEDICAL"}),
        h \in {<<>>, [loan_grade |-> "B", default_on_file |-> "Y"]}}

\* the feature pipeline at rest, as the lifecycle specifications keep it
FeatIdle ==
    /\ raw = <<>>
    /\ imputer = [stats_file |-> FALSE, dataset_file |-> FALSE]
    /\ columns = [source |-> "retrain_agent", names |-> ShippedColumns]
    /\ pending = NoColumns
    /\ store = {}
    /\ scored = NoScore

---------------------------------------------------------------------------
(* The save phase of DatabaseRetrainer.retrain_model, step by step, for     *)
(* runs that overlap (start_retraining hands each run to a background       *)
(* thread), and the readers of manifest.json.  A manifest of fmt "partial"  *)
(* is a file that json.load cannot parse: empty after open(path, "w"),      *)
(* cut short, or garbled by two writers.                                    *)

MaxWriters == 2         \* retraining runs that may overlap
MaxCrashes == 1         \* runs that are killed before they end

Writers == 1..MaxWriters

NoDoc == [fmt |-> "absent", entries |-> <<>>]

IdleWriter == [pc |-> "idle", uid |-> 0, ver |-> 0, before |-> NoDoc, doc |-> <<>>,
               overlapped |-> FALSE]

NoObs == [result |-> "none", entries |-> <<>>]

\* the entry _update_manifest appends for run w
EntryOf(w) == [DbEntry(wr[w].uid) EXCEPT !.ver = wr[w].ver]

\* another handle writes bytes into the file while these writers hold it open
MarkOverlap(w, state) ==
    [v \in Writers |->
        IF v # w /\ state[v].pc \in {"opened", "flushed"}
        THEN [state[v] EXCEPT !.overlapped = TRUE] ELSE state[v]]

\* retrain_model reaches `if save_model:`: the version is derived from the
\* local clock
SaveBegin(w) ==
    /\ wr[w].pc = "idle"
    /\ wr' = [wr EXCEPT ![w] = [pc |-> "versioned", uid |-> NextUid, ver |-> LocalNow,
                                before |-> manifest, doc |-> <<>>,
                                overlapped |-> FALSE]]
    /\ runs' = runs + 1
    /\ UNCHANGED <<manifest, files, clock, env, db, lastRun, predictor,
                   dynamic_predictor, rpc, faults, req, obs, tables, session>>
    /\ UNCHANGED <<featVars, fnVars>>

\* joblib.dump of the estimator and the scaler, json.dump of the column list
SaveArtifacts(w) ==
    /\ wr[w].pc = "versioned"
    /\ files' = WriteFiles(files, ArtifactsOf(wr[w].ver, wr[w].uid))
    /\ wr' = [wr EXCEPT ![w].pc = "saved"]
    /\ UNCHANGED <<manifest, clock, env, db, runs, lastRun, predictor,
                   dynamic_predictor, rpc, faults, req, obs, tables, session>>
    /\ UNCHANGED <<featVars, fnVars>>

\* _update_manifest: json.load of the existing file, then append in memory;
\* a file that does not parse raises and ends the run
ManifestLoad(w) ==
    /\ wr[w].pc = "saved"
    /\ wr' = IF manifest.fmt = "partial"
             THEN [wr EXCEPT ![w].pc = "failed"]
             ELSE [wr EXCEPT ![w].pc = "loaded",
                             ![w].doc = Append(manifest.entries, EntryOf(w))]
    /\ UNCHANGED <<manifest, files, clock, env, db, runs, lastRun, predictor,
                   dynamic_predictor, rpc, faults, req, obs, tables, session>>
    /\ UNCHANGED <<featVars, fnVars>>

\* open(manifest_path, "w") truncates the file
ManifestOpen(w) ==
    /\ wr[w].pc = "loaded"
    /\ manifest' = [fmt |-> "partial", entries |-> <<>>]
    /\ wr' = [wr EXCEPT ![w].pc = "opened"]
    /\ UNCHANGED <<files, clock, env, db, runs, lastRun, predictor,
                   dynamic_predictor, rpc, faults, req, obs, tables, session>>
    /\ UNCHANGED <<featVars, fnVars>>

\* json.dump writes the document piece by piece: the buffer may reach the
\* file before the last entry is written
ManifestFlush(w) ==
    /\ wr[w].pc = "opened"
    /\ manifest' = [fmt |-> "partial",
                    entries |-> SubSeq(wr[w].doc, 1, Len(wr[w].doc) - 1)]
    /\ wr' = [MarkOverlap(w, wr) EXCEPT ![w].pc = "flushed"]
    /\ UNCHANGED <<files, clock, env, db, runs, lastRun, predictor,
                   dynamic_predictor, rpc, faults, req, obs, tables, session>>
    /\ UNCHANGED <<featVars, fnVars>>

\* leaving the `with` block writes the rest and closes the file; when another
\* handle wrote in between, the bytes of the two documents may be mixed
ManifestClose(w, garbled) ==
    /\ wr[w].pc \in {"opened", "flushed"}
    /\ garbled => wr[w].overlapped
    /\ manifest' = IF garbled THEN [fmt |-> "partial", entries |-> wr[w].doc]
                   ELSE [fmt |-> "list", entries |-> wr[w].doc]
    /\ wr' = [MarkOverlap(w, wr) EXCEPT ![w].pc = "done"]
    /\ UNCHANGED <<files, clock, env, db, runs, lastRun, predictor,
                   dynamic_predictor, rpc, faults, req, obs, tables, session>>
    /\ UNCHANGED <<featVars, fnVars>>

\* the process is killed or the thread cancelled: nothing is undone
Crash(w) ==
    /\ wr[w].pc \in {"versioned", "saved", "loaded", "opened", "flushed"}
    /\ Cardinality({v \in Writers : wr[v].pc = "crashed"}) < MaxCrashes
    /\ wr' = [wr EXCEPT ![w].pc = "crashed"]
    /\ UNCHANGED <<manifest, files, clock, env, db, runs, lastRun, predictor,
                   dynamic_predictor, rpc, faults, req, obs, tables, session>>
    /\ UNCHANGED <<featVars, fnVars>>

\* _load_model and _get_model_version: json.load of manifest.json; a document
\* that does not parse is logged and the caller falls back
ReadManifest ==
    /\ manifest.fmt # "absent"
    /\ obs' = IF manifest.fmt = "partial"
              THEN [result |-> "error", entries |-> manifest.entries]
              ELSE [result |-> "document", entries |-> manifest.entries]
    /\ UNCHANGED <<manifest, files, clock, env, db, runs, lastRun, predictor,
                   dynamic_predictor, rpc, faults, req, wr, tables, session>>
    /\ UNCHANGED <<featVars, fnVars>>

\* the artifact a run writes next, by its position in the save phase
NextKind(pc) ==
    CASE pc = "versioned" -> "model"
      [] pc = "model_saved" -> "scaler"
      [] pc = "scaler_saved" -> "features"

\* the runs that hold the file of kind k and version ver open for writing
WritingTo(state, k, ver) ==
    {v \in Writers : state[v].pc = k \o "_open" /\ state[v].ver = ver}

\* joblib.dump(obj, path) / open(path, "w") begins: the file at the path is
\* created or truncated, and holds a part of the new content until the
\* write ends
ArtifactOpen(w) ==
    /\ wr[w].pc \in {"versioned", "model_saved", "scaler_saved"}
    /\ LET k == NextKind(wr[w].pc)
       IN  /\ files' = WriteFiles(files, {[kind |-> k, ver |-> wr[w].ver,
                                           uid |-> wr[w].uid, ok |-> FALSE]})
           /\ wr' = [wr EXCEPT ![w].pc = k \o "_open"]
    /\ UNCHANGED <<manifest, clock, env, db, runs, lastRun, predictor,
                   dynamic_predictor, rpc, faults, req, obs, tables, session>>
    /\ UNCHANGED <<featVars, fnVars>>

\* the write ends and the file is closed: it is whole unless another run is
\* still writing to the same path
ArtifactClose(w) ==
    /\ wr[w].pc \in {"model_open", "scaler_open", "features_open"}
    /\ LET k == CHOOSE x \in Kinds : wr[w].pc = x \o "_open"
       IN  /\ files' = WriteFiles(files,
                          {[kind |-> k, ver |-> wr[w].ver, uid |-> wr[w].uid,
                            ok |-> WritingTo(wr, k, wr[w].ver) = {w}]})
           /\ wr' = [wr EXCEPT ![w].pc = IF k = "features" THEN "saved"
                                         ELSE k \o "_saved"]
    /\ UNCHANGED <<manifest, clock, env, db, runs, lastRun, predictor,
                   dynamic_predictor, rpc, faults, req, obs, tables, session>>
    /\ UNCHANGED <<featVars, fnVars>>

\* a load while runs are saving: CreditRiskPredictor._load_model on the
\* manifest and the files as they are
LoadNewest ==
    /\ manifest.fmt = "list" /\ Len(manifest.entries) > 0
    /\ obs' = [result |-> IF \A k \in Kinds :
                                LoadModel(manifest, files)[k].ver = Last(manifest.entries).ver
                          THEN "newest" ELSE "fallback",
               entries |-> manifest.entries]
    /\ UNCHANGED <<manifest, files, clock, env, db, runs, lastRun, predictor,
                   dynamic_predictor, rpc, faults, req, wr, tables, session>>
    /\ UNCHANGED <<featVars, fnVars>>

\* the columns of the ORM model LoanApplication
OrmColumns ==
    {"id", "person_age", "person_income", "person_emp_length", "home_ownership",
     "loan_amnt", "loan_int_rate", "loan_percent_income", "loan_intent", "loan_grade",
     "cb_person_cred_hist_length", "default_on_file", "created_at", "updated_at",
     "application_status", "notes"}

\* init_db: the tables are created from the ORM models, empty
EmptyTables == [columns |-> OrmColumns, loan_applications |-> {}, predictions |-> {}]

NoSession ==
    [pc |-> "idle", chunks |-> 0, chunk |-> 0, stage |-> "none",
     applications |-> {}, predictions |-> {}, failed |-> {}]

IoIdle ==
    /\ wr = [w \in Writers |-> IdleWriter] /\ obs = NoObs
    /\ tables = EmptyTables /\ session = NoSession

FnIdle == call = <<>> /\ ret = <<>>

---------------------------------------------------------------------------
(* CreditRiskPredictor.predict.  A probability is counted in millionths     *)
(* (0.6 is 600000).  The estimator is what model.predict and                *)
(* model.predict_proba give for the scaled row: the row of class            *)
(* probabilities, of which predict returns the label of the largest, and    *)
(* whether predict_proba raises.  The risk levels are named without the     *)
(* symbol that ends them in the code.                                       *)

Unit == 1000000                     \* probability 1.0

FlagThresholdDefault == 600000      \* flag_threshold: float = 0.6

BorderlineThreshold == 400000       \* elif prob > 0.4

ProbGrid == {0, 399999, 400000, 400001, 599999, 600000, 600001, Unit}

\* the rows predict_proba(...)[0] can be: one column, two columns (a binary
\* classifier), three columns (a classifier fitted on three labels)
ProbaRows ==
    {<<p>> : p \in ProbGrid}
        \cup {<<Unit - p, p>> : p \in ProbGrid}
        \cup UNION {{<<Unit - p - q, p, q>> : q \in {r \in ProbGrid : r <= Unit - p}} :
                    p \in ProbGrid}

EstimatorOutputs == [row : ProbaRows, proba_raises : BOOLEAN]

\* model.predict(...)[0]: the class whose probability is largest (the first
\* of them on a tie); with one column, class 1 above one half
Label(row) ==
    IF Len(row) = 1 THEN (IF 2 * row[1] > Unit THEN 1 ELSE 0)
    ELSE (CHOOSE i \in DOMAIN row :
              /\ \A j \in DOMAIN row : row[j] <= row[i]
              /\ \A j \in DOMAIN row : row[j] = row[i] => i <= j) - 1

\* predict with the high-risk band closed at the threshold
predict_inclusive(est, flag_threshold) ==
    LET pred == Label(est.row)
        raw_proba == est.row
        prob == IF est.proba_raises THEN pred * Unit
                ELSE IF Len(raw_proba) = 2 THEN raw_proba[2]
                ELSE IF Len(raw_proba) = 1 THEN raw_proba[1]
                ELSE pred * Unit
        risk_level == IF prob >= flag_threshold THEN "High Risk"
                      ELSE IF prob > BorderlineThreshold THEN "Borderline Risk"
                      ELSE "Low Risk"
    IN  [risk_level |-> risk_level, prob |-> prob, pred |-> pred,
         flag_threshold |-> flag_threshold]

\* CreditRiskPredictor.predict, after preprocess_features
predict(est, flag_threshold) ==
    LET pred == Label(est.row)
        raw_proba == est.row
        prob == IF est.proba_raises THEN pred * Unit
                ELSE IF Len(raw_proba) = 2 THEN raw_proba[2]
                ELSE IF Len(raw_proba) = 1 THEN raw_proba[1]
                ELSE pred * Unit
        risk_level == IF prob > flag_threshold THEN "High Risk"
                      ELSE IF prob > BorderlineThreshold THEN "Borderline Risk"
                      ELSE "Low Risk"
    IN  [risk_level |-> risk_level, prob |-> prob, pred |-> pred,
         flag_threshold |-> flag_threshold]

\* predict_risk: the routes call predict with flag_threshold=0.6
Predict ==
    /\ call \in EstimatorOutputs /\ ret = <<>>
    /\ ret' = predict(call, FlagThresholdDefault)
    /\ UNCHANGED <<lifeVars, featVars, ioVars, call>>

---------------------------------------------------------------------------
(* _check_drift.  FEATURE_STATS is models/feature_statistics.json, which    *)
(* retrain_if_needed writes with min, max, mean and std (ddof=0) of every   *)
(* numeric training column; the keys are read with stats.get, so a table    *)
(* entry without min and max is modelled too.  A value of the input dict is *)
(* a number, a string or None; numbers are whole.                           *)

DriftFields == <<"person_age", "loan_amnt">>

Num(n) == [num |-> n]

Str(s) == [str |-> s]

None == [none |-> TRUE]

\* the strings float() parses, with their values
Numerals == [s \in {"30"} |-> 30]

\* float(x): the number, or an exception
float(x) ==
    IF "num" \in DOMAIN x THEN [ok |-> TRUE, val |-> x.num]
    ELSE IF "str" \in DOMAIN x /\ x.str \in DOMAIN Numerals
         THEN [ok |-> TRUE, val |-> Numerals[x.str]]
    ELSE [ok |-> FALSE, val |-> 0]

\* dict.get(key): the value, or None
Get(d, key) == IF key \in DOMAIN d THEN Num(d[key]) ELSE None

\* a drift check in which the 3-sigma test does not depend on the min/max test
check_drift_both(FEATURE_STATS, data) ==
    LET warn(feat) ==
            LET stats == FEATURE_STATS[feat]
                val == float(data[feat]).val
                mn == Get(stats, "min")
                mx == Get(stats, "max")
                mean == Get(stats, "mean")
                std == Get(stats, "std")
                range == IF mn # None /\ mx # None /\ (val < mn.num \/ val > mx.num)
                         THEN <<[feat |-> feat, val |-> val, outside |-> "min/max"]>>
                         ELSE <<>>
                sigma == IF mean # None /\ std # None /\ std.num >= 0
                            /\ (val < mean.num - 3 * std.num \/ val > mean.num + 3 * std.num)
                         THEN <<[feat |-> feat, val |-> val, outside |-> "3-sigma"]>>
                         ELSE <<>>
            IN  range \o sigma
        checked(feat) ==
            IF feat \in DOMAIN FEATURE_STATS /\ feat \in DOMAIN data /\ float(data[feat]).ok
            THEN warn(feat) ELSE <<>>
    IN  checked(DriftFields[1]) \o checked(DriftFields[2])

\* _check_drift: the warnings, in the order of the table's fields
check_drift(FEATURE_STATS, data) ==
    LET warn(feat) ==
            LET stats == FEATURE_STATS[feat]
                val == float(data[feat]).val
                mn == Get(stats, "min")
                mx == Get(stats, "max")
                mean == Get(stats, "mean")
                std == Get(stats, "std")
            IN  IF mn # None /\ mx # None /\ (val < mn.num \/ val > mx.num)
                THEN <<[feat |-> feat, val |-> val, outside |-> "min/max"]>>
                ELSE IF mean # None /\ std # None /\ std.num >= 0
                        /\ (val < mean.num - 3 * std.num \/ val > mean.num + 3 * std.num)
                THEN <<[feat |-> feat, val |-> val, outside |-> "3-sigma"]>>
                ELSE <<>>
        checked(feat) ==
            IF feat \in DOMAIN FEATURE_STATS /\ feat \in DOMAIN data /\ float(data[feat]).ok
            THEN warn(feat) ELSE <<>>
    IN  checked(DriftFields[1]) \o checked(DriftFields[2])

\* entries of the table: columns whose values lie in [min, max] around mean
StatChoices ==
    {[min |-> 20, max |-> 100, mean |-> 30, std |-> 5],
     [min |-> 20, max |-> 40, mean |-> 30, std |-> 5],
     [min |-> 20, max |-> 100, mean |-> 80, std |-> 5],
     [min |-> 30, max |-> 30, mean |-> 30, std |-> 0],
     [mean |-> 30, std |-> 5]}

DriftValues ==
    {Num(n) : n \in {19, 20, 21, 29, 30, 31, 45, 46, 64, 65, 100, 101}}
        \cup {Str("30"), Str("RENT"), None}

\* a dict over some of the drift fields
Partial(values) ==
    UNION {[keys -> values] : keys \in SUBSET Range(DriftFields)}

DriftCalls == [FEATURE_STATS : Partial(StatChoices), data : Partial(DriftValues)]

\* predict_risk / predict_risk_dynamic: drift_warnings = _check_drift(...)
CheckDrift ==
    /\ call \in DriftCalls /\ ret = <<>>
    /\ ret' = [warnings |-> check_drift(call.FEATURE_STATS, call.data)]
    /\ UNCHANGED <<lifeVars, featVars, ioVars, call>>

---------------------------------------------------------------------------
(* FeatureImputer.impute returns the imputed dict and the imputation log;   *)
(* a log line "<field>: <source>" is the record of its two parts.           *)

MaxRounds == 2          \* times impute is applied, each time to the last result

\* an imputation log that notes the derivation whenever its operands are there
impute_log_rederiving(imp, data) ==
    LET derivable ==
            /\ TRUE
            /\ "loan_amnt" \in DOMAIN data
            /\ "person_income" \in DOMAIN data
            /\ data["person_income"] > 0
        missing(f) == f \notin DOMAIN data /\ ~(f = "loan_percent_income" /\ derivable)
        numeric(f) ==
            IF f \in DOMAIN imp.historical_stats THEN "historical median"
            ELSE IF f \in DOMAIN imp.stats /\ "mean" \in DOMAIN imp.stats[f]
                 THEN "training mean"
            ELSE "safe default"
        categorical(f) ==
            IF f \in DOMAIN imp.categorical_modes THEN "historical mode"
            ELSE "safe default"
        numeric_log == SelectSeq(NumericFields, missing)
        categorical_log == SelectSeq(CatFields, missing)
    IN  (IF derivable
         THEN <<[field |-> "loan_percent_income",
                 source |-> "derived from loan_amnt/person_income"]>>
         ELSE <<>>)
            \o [i \in DOMAIN numeric_log |->
                   [field |-> numeric_log[i], source |-> numeric(numeric_log[i])]]
            \o [i \in DOMAIN categorical_log |->
                   [field |-> categorical_log[i], source |-> categorical(categorical_log[i])]]

\* FeatureImputer.impute, the imputation log
impute_log(imp, data) ==
    LET derivable ==
            /\ "loan_percent_income" \notin DOMAIN data
            /\ "loan_amnt" \in DOMAIN data
            /\ "person_income" \in DOMAIN data
            /\ data["person_income"] > 0
        missing(f) == f \notin DOMAIN data /\ ~(f = "loan_percent_income" /\ derivable)
        numeric(f) ==
            IF f \in DOMAIN imp.historical_stats THEN "historical median"
            ELSE IF f \in DOMAIN imp.stats /\ "mean" \in DOMAIN imp.stats[f]
                 THEN "training mean"
            ELSE "safe default"
        categorical(f) ==
            IF f \in DOMAIN imp.categorical_modes THEN "historical mode"
            ELSE "safe default"
        numeric_log == SelectSeq(NumericFields, missing)
        categorical_log == SelectSeq(CatFields, missing)
    IN  (IF derivable
         THEN <<[field |-> "loan_percent_income",
                 source |-> "derived from loan_amnt/person_income"]>>
         ELSE <<>>)
            \o [i \in DOMAIN numeric_log |->
                   [field |-> numeric_log[i], source |-> numeric(numeric_log[i])]]
            \o [i \in DOMAIN categorical_log |->
                   [field |-> categorical_log[i], source |-> categorical(categorical_log[i])]]

\* the dicts predict_risk_dynamic hands to impute
RawInputs == {model_dump(p) : p \in Payloads}

\* dynamic_predictor.predict: imputed, log = self.imputer.impute(input_data)
Impute ==
    /\ call # <<>> /\ "round" \in DOMAIN call /\ ret = <<>>
    /\ ret' = [imputed |-> impute(FeatureImputer(imputer.stats_file, imputer.dataset_file),
                                  call.data),
               log |-> impute_log(FeatureImputer(imputer.stats_file, imputer.dataset_file),
                                  call.data)]
    /\ UNCHANGED <<lifeVars, featVars, ioVars, call>>

\* the imputed dict is handed to impute again
Resubmit ==
    /\ call # <<>> /\ "round" \in DOMAIN call /\ ret # <<>>
    /\ call.round < MaxRounds
    /\ call' = [data |-> ret.imputed, round |-> call.round + 1]
    /\ ret' = <<>>
    /\ UNCHANGED <<lifeVars, featVars, ioVars>>

---------------------------------------------------------------------------
(* The attribution map of a scoring response.  The explainer gives one      *)
(* value per column of the scaled row, in the order of the bundle's column  *)
(* list; the model writes the value computed for the i-th column as i.  A   *)
(* Python dict whose order matters is the sequence of its <<key, value>>    *)
(* items.                                                                   *)

\* complete applications (LoanApplication: every field required)
Applications ==
    {[person_age |-> 30, person_income |-> 80000, person_emp_length |-> 60,
      loan_amnt |-> 16000, loan_int_rate |-> 12, loan_percent_income |-> 20,
      cb_person_cred_hist_length |-> 3, home_ownership |-> h, loan_intent |-> i,
      loan_grade |-> g, default_on_file |-> d] :
        h \in {"RENT", "OWN", "MORTGAGE", "OTHER"}, i \in {"MEDICAL", "EDUCATION"},
        g \in {"A", "B"}, d \in {"Y", "N"}}

\* predict_risk: input_dict_for_predictor
input_dict_for_predictor(raw_input_dict) ==
    [i \in DOMAIN NumericFields |-> <<NumericFields[i], raw_input_dict[NumericFields[i]]>>]
        \o <<<<"person_home_ownership_" \o raw_input_dict["home_ownership"], 1>>,
             <<"loan_intent_" \o raw_input_dict["loan_intent"], 1>>,
             <<"loan_grade_" \o raw_input_dict["loan_grade"], 1>>,
             <<"cb_person_default_on_file_" \o raw_input_dict["default_on_file"], 1>>>>

\* CreditRiskPredictor.get_shap_values: the attribution row of the scaled
\* row (one value per name in feature_names, one fewer when the explainer
\* returns a short row) and df_input, whose columns are the keys of the
\* input dict
get_shap_values(feature_names, input_dict, short) ==
    [row |-> [i \in 1..(Len(feature_names) - (IF short THEN 1 ELSE 0)) |-> i],
     df_features |-> [i \in DOMAIN input_dict |-> input_dict[i][1]]]

\* {k: float(v) for k, v in zip(feature_names, row)}
zip(names, row) ==
    [i \in 1..(IF Len(names) < Len(row) THEN Len(names) ELSE Len(row)) |->
        <<names[i], row[i]>>]

\* the SHAP part of predict_risk (logs = TRUE) and predict_risk_dynamic
explain(feature_names, input_dict, short, logs) ==
    LET shap == get_shap_values(feature_names, input_dict, short)
    IN  [shap_explanation |-> zip(shap.df_features, shap.row),
         warned |-> (logs /\ Len(shap.df_features) # Len(shap.row))]

ExplainCalls ==
    [path : {"static", "dynamic"}, application : Applications,
     feature_names : {ShippedColumns, prepare_features(OriginalRows)}, short : BOOLEAN]

\* predict_risk
ExplainStatic ==
    /\ call \in ExplainCalls /\ call.path = "static" /\ ret = <<>>
    /\ ret' = explain(call.feature_names, input_dict_for_predictor(call.application),
                      call.short, TRUE)
    /\ UNCHANGED <<lifeVars, featVars, ioVars, call>>

\* predict_risk_dynamic
ExplainDynamic ==
    LET imputed_data == impute(FeatureImputer(imputer.stats_file, imputer.dataset_file),
                               model_dump(call.application))
        complete_features == validate_and_fill(call.feature_names,
                                               map_to_model_features(imputed_data))
    IN  /\ call \in ExplainCalls /\ call.path = "dynamic" /\ ret = <<>>
        /\ ret' = explain(call.feature_names, complete_features, call.short, FALSE)
        /\ UNCHANGED <<lifeVars, featVars, ioVars, call>>

---------------------------------------------------------------------------
(* Requests served by the routes application while a retraining run appends *)
(* to the manifest and artifacts get lost: a dynamic scoring request, which *)
(* stores a PredictionRecord, and the reload trigger.  call is the request  *)
(* last served and ret its outcome, numbered by ret.n.                      *)

MaxRequests == 2        \* requests served

\* the estimator outputs of the served requests
ServedOutputs ==
    {[row |-> <<Unit - p, p>>, proba_raises |-> FALSE] : p \in {400000, 600001}}

NoResponse == [n |-> 0, op |-> "none"]

\* _get_model_version: the version of the manifest's last entry
GetModelVersion(m) ==
    IF m.fmt = "list" /\ Len(m.entries) > 0
    THEN [known |-> TRUE, ver |-> Last(m.entries).ver]
    ELSE [known |-> FALSE, ver |-> 0]

\* a response that reports the failure of the store
response_propagating(result, stored) ==
    IF stored
    THEN [status |-> "success", risk_level |-> result.risk_level,
          probability_default |-> result.prob, binary_prediction |-> result.pred]
    ELSE [status |-> "error", risk_level |-> "", probability_default |-> 0,
          binary_prediction |-> 0]

\* predict_risk_dynamic: the returned dict; _store_prediction_to_db has
\* logged and swallowed any exception of the store
response(result, stored) ==
    [status |-> "success", risk_level |-> result.risk_level,
     probability_default |-> result.prob, binary_prediction |-> result.pred]

\* predict_risk_dynamic on the live dynamic scorer; dbOk: create_prediction
\* raises nothing
ScoreAndStore(est, dbOk) ==
    LET result == predict(est, FlagThresholdDefault)
    IN  /\ ret.n < MaxRequests
        /\ dynamic_predictor.loaded
        /\ call' = [op |-> "predict_risk_dynamic", est |-> est, dbOk |-> dbOk]
        /\ ret' = [n |-> ret.n + 1, op |-> "predict_risk_dynamic",
                   response |-> response(result, dbOk),
                   stored |-> dbOk,
                   model_version |-> GetModelVersion(manifest)]
        /\ UNCHANGED <<lifeVars, featVars, ioVars>>

\* POST /reload_model: ModelManager.reload_models, then the response
ReloadModel ==
    LET p == LoadModel(manifest, files)
    IN  /\ ret.n < MaxRequests
        /\ env.app = "routes"
        /\ \A r \in Reloads : rpc[r] = "idle"
        /\ predictor' = p
        /\ dynamic_predictor' = p
        /\ call' = [op |-> "reload_model"]
        /\ ret' = [n |-> ret.n + 1, op |-> "reload_model", status |-> "success"]
        /\ UNCHANGED <<manifest, files, clock, env, db, runs, lastRun, rpc, faults, req>>
        /\ UNCHANGED <<featVars, ioVars>>

---------------------------------------------------------------------------
(* The response of predict_risk_batch.  An item of the request is described *)
(* by what happens when it is scored: dynamic_predictor.predict raises or   *)
(* not, and the explanation (SHAP values and LLM text) raises or not.       *)

MaxBatch == 3           \* items of a batch request

BatchItems == [predict_raises : BOOLEAN, explain_raises : BOOLEAN]

BatchRequests ==
    [applications : UNION {[1..n -> BatchItems] : n \in 0..MaxBatch},
     include_explanations : BOOLEAN]

\* the entry the loop body builds for the item at position idx (from 0)
BatchEntry(idx, item, include_explanations) ==
    IF item.predict_raises
    THEN [index |-> idx, status |-> "error", explanation |-> "none"]
    ELSE [index |-> idx, status |-> "success",
          explanation |-> IF ~include_explanations THEN "none"
                          ELSE IF item.explain_raises THEN "explanation_error"
                          ELSE "shap_explanation"]

\* routes predict_risk_batch: every entry is appended to results
batch_routes(request) ==
    LET entries == [i \in DOMAIN request.applications |->
                       BatchEntry(i - 1, request.applications[i],
                                  request.include_explanations)]
    IN  [results |-> entries, count |-> Len(entries)]

\* main.py predict_risk_batch: the entries of failed items go to errors
batch_main(request) ==
    LET entries == [i \in DOMAIN request.applications |->
                       BatchEntry(i - 1, request.applications[i],
                                  request.include_explanations)]
        results == SelectSeq(entries, LAMBDA e : e.status = "success")
        errors == SelectSeq(entries, LAMBDA e : e.status = "error")
    IN  [results |-> results, errors |-> errors,
         total_processed |-> Len(request.applications),
         successful |-> Len(results), failed |-> Len(errors)]

\* POST /predict_risk_batch of the routes application
PredictRiskBatchRoutes ==
    /\ env.app = "routes" /\ dynamic_predictor.loaded
    /\ call \in BatchRequests /\ ret = <<>>
    /\ ret' = batch_routes(call)
    /\ UNCHANGED <<lifeVars, featVars, ioVars, call>>

\* POST /predict_risk_batch of main.py
PredictRiskBatchMain ==
    /\ env.app = "main" /\ dynamic_predictor.loaded
    /\ call \in BatchRequests /\ ret = <<>>
    /\ ret' = batch_main(call)
    /\ UNCHANGED <<lifeVars, featVars, ioVars, call>>

---------------------------------------------------------------------------
(* Bulk import: import_csv_data.  The routes version reads the file in      *)
(* chunks and, per chunk, inserts the loan applications, then the           *)
(* predictions, then commits, with db.rollback() and a 500 response when    *)
(* any of it raises.  main.py adds one prediction per row and commits       *)
(* every batch of rows and once at the end; a commit that raises is logged  *)
(* as a row error and the loop goes on (the session has rolled the          *)
(* transaction back).  A row is named by its chunk and its place in it.     *)

MaxChunks == 2          \* chunks (batches) of an imported file

ChunkRows == 2          \* rows per chunk in the model

Chunks == 1..MaxChunks

RowsOf(b) == {[chunk |-> b, n |-> i] : i \in 1..ChunkRows}

\* the transaction is rolled back: nothing of it reaches the tables
Rollback(s) == [s EXCEPT !.applications = {}, !.predictions = {}]

\* import_csv_data starts on a file of n chunks
ImportBegin(n) ==
    /\ session.pc = "idle"
    /\ session' = [NoSession EXCEPT !.pc = "open", !.chunks = n, !.chunk = 1,
                                    !.stage = "start"]
    /\ UNCHANGED <<lifeVars, featVars, fnVars, wr, obs, tables>>

\* routes: db.execute(table.insert().values(app_data_list).returning(id))
InsertApplications ==
    /\ env.app = "routes" /\ session.pc = "open" /\ session.stage = "start"
    /\ session' = [session EXCEPT !.applications = RowsOf(session.chunk),
                                  !.stage = "applications"]
    /\ UNCHANGED <<lifeVars, featVars, fnVars, wr, obs, tables>>

\* routes: db.execute(Prediction.__table__.insert(), pred_data_list)
InsertPredictions ==
    /\ env.app = "routes" /\ session.pc = "open" /\ session.stage = "applications"
    /\ session' = [session EXCEPT !.predictions = RowsOf(session.chunk),
                                  !.stage = "predictions"]
    /\ UNCHANGED <<lifeVars, featVars, fnVars, wr, obs, tables>>

\* main: db.add(prediction) for the next row of the batch
AddPrediction ==
    /\ env.app = "main" /\ session.pc = "open"
    /\ Cardinality(session.predictions) < ChunkRows
    /\ session' = [session EXCEPT
                      !.predictions = @ \cup {[chunk |-> session.chunk,
                                               n |-> Cardinality(@) + 1]},
                      !.stage = IF Cardinality(session.predictions) + 1 = ChunkRows
                                THEN "predictions" ELSE "adding"]
    /\ UNCHANGED <<lifeVars, featVars, fnVars, wr, obs, tables>>

\* db.commit(): the rows of the transaction reach the tables; the import
\* goes on with the next chunk or returns
CommitChunk ==
    /\ session.pc = "open" /\ session.stage = "predictions"
    /\ tables' = [tables EXCEPT
                     !.loan_applications = @ \cup session.applications,
                     !.predictions = @ \cup session.predictions]
    /\ session' = [Rollback(session) EXCEPT
                      !.pc = IF session.chunk = session.chunks THEN "done" ELSE "open",
                      !.chunk = IF session.chunk = session.chunks THEN @ ELSE @ + 1,
                      !.stage = IF session.chunk = session.chunks THEN "none" ELSE "start"]
    /\ UNCHANGED <<lifeVars, featVars, fnVars, wr, obs>>

\* a failed chunk that keeps what was inserted before the failure
ChunkFailsKeeping ==
    /\ session.pc = "open"
    /\ env.app = "routes" \/ session.stage = "predictions"
    /\ tables' = [tables EXCEPT
                     !.loan_applications = @ \cup session.applications,
                     !.predictions = @ \cup session.predictions]
    /\ session' =
          IF env.app = "routes"
          THEN [Rollback(session) EXCEPT !.pc = "failed", !.stage = "none",
                                         !.failed = @ \cup {session.chunk}]
          ELSE [Rollback(session) EXCEPT
                   !.failed = @ \cup {session.chunk},
                   !.pc = IF session.chunk = session.chunks THEN "failed" ELSE "open",
                   !.chunk = IF session.chunk = session.chunks THEN @ ELSE @ + 1,
                   !.stage = IF session.chunk = session.chunks THEN "none" ELSE "start"]
    /\ UNCHANGED <<lifeVars, featVars, fnVars, wr, obs>>

\* an insert or the commit of the chunk raises.  routes: db.rollback(), then
\* HTTPException(500).  main: the commit raised inside the row's try block,
\* the row is counted as an error and the loop goes on; the exception of the
\* final commit ends the request with a 500
ChunkFails ==
    /\ session.pc = "open"
    /\ env.app = "routes" \/ session.stage = "predictions"
    /\ tables' = tables
    /\ session' =
          IF env.app = "routes"
          THEN [Rollback(session) EXCEPT !.pc = "failed", !.stage = "none",
                                         !.failed = @ \cup {session.chunk}]
          ELSE [Rollback(session) EXCEPT
                   !.failed = @ \cup {session.chunk},
                   !.pc = IF session.chunk = session.chunks THEN "failed" ELSE "open",
                   !.chunk = IF session.chunk = session.chunks THEN @ ELSE @ + 1,
                   !.stage = IF session.chunk = session.chunks THEN "none" ELSE "start"]
    /\ UNCHANGED <<lifeVars, featVars, fnVars, wr, obs>>

---------------------------------------------------------------------------
(* check_retraining_readiness as a function of the predictions table.  The  *)
(* table is given newest first, as runs of records that are all labeled     *)
(* (actual_outcome set) or all unlabeled; crud.get_predictions orders by    *)
(* created_at descending and returns at most `limit` records.               *)

QueryLimit == 10000     \* crud.get_predictions(db, limit=10000)

MaxBlocks == 2          \* runs of records in a predictions table

BlockSizes == {1, 39, 2000, QueryLimit}

Blocks == [n : BlockSizes, labeled : BOOLEAN]

Stores == UNION {[1..k -> Blocks] : k \in 0..MaxBlocks}

ReadinessCalls ==
    [store : Stores, min_samples : {MinSamplesDefault, 11000},
     min_feedback_pct : {MinFeedbackPctDefault, 50}]

Max(a, b) == IF a >= b THEN a ELSE b

Min(a, b) == IF a <= b THEN a ELSE b

RECURSIVE Count(_, _)
\* the number of records of a table, all of them or the labeled ones
Count(table, onlyLabeled) ==
    IF table = <<>> THEN 0
    ELSE (IF onlyLabeled /\ ~Head(table).labeled THEN 0 ELSE Head(table).n)
         + Count(Tail(table), onlyLabeled)

RECURSIVE get_predictions(_, _)
\* query.order_by(created_at.desc()).offset(0).limit(limit).all()
get_predictions(table, limit) ==
    IF table = <<>> \/ limit <= 0 THEN <<>>
    ELSE <<[Head(table) EXCEPT !.n = Min(@, limit)]>>
         \o get_predictions(Tail(table), limit - Min(Head(table).n, limit))

check_retraining_readiness(table, min_samples, pct) ==
    LET all_predictions == get_predictions(table, QueryLimit)
        total_predictions == Count(all_predictions, FALSE)
        feedback_count == Count(all_predictions, TRUE)
        ratio_ok == IF total_predictions > 0
                    THEN feedback_count * 100 >= pct * total_predictions
                    ELSE pct <= 0
    IN  [is_ready |-> total_predictions >= min_samples /\ ratio_ok,
         total_predictions |-> total_predictions,
         feedback_count |-> feedback_count,
         samples_needed |-> Max(0, min_samples - total_predictions),
         feedback_needed |-> Max(0, (min_samples * pct) \div 100 - feedback_count)]

CheckReadiness ==
    /\ call \in ReadinessCalls /\ ret = <<>>
    /\ ret' = check_retraining_readiness(call.store, call.min_samples,
                                         call.min_feedback_pct)
    /\ UNCHANGED <<lifeVars, featVars, ioVars, call>>

---------------------------------------------------------------------------
(* The retraining trigger.  routes: POST /db/retraining/start (alias        *)
(* /db/retrain) asks check_retraining_status(), which builds a              *)
(* DatabaseRetrainer() with the default thresholds, answers 400 when that   *)
(* says not ready, and otherwise hands retrain_from_database with the       *)
(* request's thresholds to the background tasks, which run after the        *)
(* response.  main.py: POST /db/retrain builds DatabaseRetrainer(min_samples,*)
(* min_feedback_ratio), returns "not_ready" with the readiness, or runs      *)
(* retrain_model.  Both runs include the original dataset (the default).    *)

MaxTriggers == 2        \* trigger requests served

\* the readiness snapshot of a retrainer with thresholds minS and pct
Readiness(minS, pct) ==
    [is_ready |-> IsReady(minS, pct), total_predictions |-> db.total,
     feedback_count |-> db.labeled, min_samples_required |-> minS,
     min_feedback_pct_required |-> pct]

\* the run a trigger starts: retrain_model(db, test_size) of a
\* DatabaseRetrainer(minS, pct), with the response of the trigger in ret
TriggeredRun(minS, pct, fitOk) ==
    LET status == DbStatus(minS, pct, TRUE, fitOk)
        saved == status = "success"
    IN  /\ runs' = runs + 1
        /\ lastRun' = RunRecord("db", status, IsReady(minS, pct), TRUE, TRUE,
                                minS = MinSamplesDefault /\ pct = MinFeedbackPctDefault)
        /\ files' = IF saved THEN WriteFiles(files, ArtifactsOf(LocalNow, NextUid)) ELSE files
        /\ manifest' = IF saved THEN UpdateManifest(manifest, DbEntry(NextUid)) ELSE manifest
        /\ UNCHANGED <<clock, env, db, predictor, dynamic_predictor, rpc, faults, req>>
        /\ UNCHANGED <<featVars, ioVars>>

\* routes.retraining.start_retraining and its background task
StartRetraining(minS, pct, fitOk) ==
    LET status == Readiness(MinSamplesDefault, MinFeedbackPctDefault)
    IN  /\ env.app = "routes"
        /\ ret.n < MaxTriggers /\ runs < MaxRuns
        /\ call' = [op |-> "start_retraining", min_samples |-> minS,
                    min_feedback_pct |-> pct]
        /\ IF ~status.is_ready
           THEN /\ ret' = [n |-> ret.n + 1, op |-> "start_retraining", code |-> 400,
                           status |-> "error", snapshot |-> FALSE,
                           started |-> FALSE, gate |-> <<>>]
                /\ UNCHANGED <<lifeVars, featVars, ioVars>>
           ELSE /\ ret' = [n |-> ret.n + 1, op |-> "start_retraining", code |-> 200,
                           status |-> "started", snapshot |-> TRUE,
                           started |-> TRUE, gate |-> <<minS, pct>>]
                /\ TriggeredRun(minS, pct, fitOk)

\* main.retrain_from_database
RetrainFromDatabase(minS, pct, fitOk) ==
    LET readiness == Readiness(minS, pct)
    IN  /\ env.app = "main"
        /\ ret.n < MaxTriggers /\ runs < MaxRuns
        /\ call' = [op |-> "start_retraining", min_samples |-> minS,
                    min_feedback_pct |-> pct]
        /\ IF ~readiness.is_ready
           THEN /\ ret' = [n |-> ret.n + 1, op |-> "start_retraining", code |-> 200,
                           status |-> "not_ready", snapshot |-> TRUE,
                           started |-> FALSE, gate |-> <<>>]
                /\ UNCHANGED <<lifeVars, featVars, ioVars>>
           ELSE /\ ret' = [n |-> ret.n + 1, op |-> "start_retraining",
                           code |-> IF DbStatus(minS, pct, TRUE, fitOk) = "error"
                                    THEN 500 ELSE 200,
                           status |-> IF DbStatus(minS, pct, TRUE, fitOk) = "error"
                                      THEN "error" ELSE "success",
                           snapshot |-> FALSE,
                           started |-> TRUE, gate |-> <<minS, pct>>]
                /\ TriggeredRun(minS, pct, fitOk)

---------------------------------------------------------------------------
(* Dynamic schema: crud.add_column_if_not_exists and                        *)
(* crud.create_loan_application.  application_data is a dict, modelled as   *)
(* the sequence of its <<key, value>> items in insertion order; a row of    *)
(* loan_applications is its id and the values it was inserted with.         *)

MaxInserts == 2         \* calls of the crud functions

ColumnNames == {"person_age", "new_dynamic_col", "debt-to-income"}

CellValues == {1, 2}

\* re.match(r"^[a-zA-Z0-9_]+$", column_name)
NameMatches(column_name) == column_name \notin {"debt-to-income"}

Keys(d) == {d[i][1] : i \in 1..Len(d)}

\* the dict as a function of its keys
ValuesOf(d) == [k \in Keys(d) |-> d[CHOOSE i \in 1..Len(d) : d[i][1] = k][2]]

\* dicts of one key and of two keys
ApplicationData ==
    LET Items == ColumnNames \X CellValues
    IN  {<<a>> : a \in Items}
        \cup {d \in {<<a, b>> : a, b \in Items} : d[1][1] # d[2][1]}

\* add_column_if_not_exists on table t: the columns afterwards and whether
\* the call returned ("ok") or raised
add_column_if_not_exists(t, column_name) ==
    IF ~NameMatches(column_name) THEN [tables |-> t, status |-> "ValueError"]
    ELSE IF column_name \notin t.columns
    THEN [tables |-> [t EXCEPT !.columns = @ \cup {column_name}], status |-> "ok"]
    ELSE [tables |-> t, status |-> "ok"]

RECURSIVE EnsureColumns(_, _)
\* the loop over dynamic_keys: each missing column is added (and committed)
\* in turn, the first exception ends the call
EnsureColumns(t, cols) ==
    IF cols = <<>> THEN [tables |-> t, status |-> "ok"]
    ELSE IF Head(cols) \in t.columns THEN EnsureColumns(t, Tail(cols))
    ELSE LET r == add_column_if_not_exists(t, Head(cols))
         IN  IF r.status # "ok" THEN r ELSE EnsureColumns(r.tables, Tail(cols))

NextId(t) == Cardinality(t.loan_applications) + 1

\* a create_loan_application that takes only the columns missing from the
\* database for dynamic keys, and so gives the others to the ORM constructor
create_loan_application_new_only(t, application_data) ==
    LET keys == [i \in 1..Len(application_data) |-> application_data[i][1]]
        dynamic_keys == SelectSeq(keys, LAMBDA k : k \notin OrmColumns /\ k \notin t.columns)
        ensured == EnsureColumns(t, dynamic_keys)
        row == [id |-> NextId(t), values |-> ValuesOf(application_data)]
    IN  IF ensured.status # "ok" THEN ensured
        ELSE IF dynamic_keys = <<>> /\ ~(Keys(application_data) \subseteq OrmColumns)
        THEN [tables |-> ensured.tables, status |-> "TypeError"]
        ELSE [tables |-> [ensured.tables EXCEPT !.loan_applications = @ \cup {row}],
              status |-> "ok"]

create_loan_application(t, application_data) ==
    LET keys == [i \in 1..Len(application_data) |-> application_data[i][1]]
        dynamic_keys == SelectSeq(keys, LAMBDA k : k \notin OrmColumns)
        ensured == EnsureColumns(t, dynamic_keys)
        row == [id |-> NextId(t), values |-> ValuesOf(application_data)]
    IN  IF ensured.status # "ok" THEN ensured
        ELSE [tables |-> [ensured.tables EXCEPT !.loan_applications = @ \cup {row}],
              status |-> "ok"]

AddColumnIfNotExists(column_name) ==
    LET r == add_column_if_not_exists(tables, column_name)
    IN  /\ ret.n < MaxInserts
        /\ call' = [op |-> "add_column_if_not_exists", column_name |-> column_name]
        /\ tables' = r.tables
        /\ ret' = [n |-> ret.n + 1, op |-> "add_column_if_not_exists", status |-> r.status]
        /\ UNCHANGED <<lifeVars, featVars, wr, obs, session>>

CreateLoanApplication(application_data) ==
    LET r == create_loan_application(tables, application_data)
    IN  /\ ret.n < MaxInserts
        /\ call' = [op |-> "create_loan_application", application_data |-> application_data]
        /\ tables' = r.tables
        /\ ret' = [n |-> ret.n + 1, op |-> "create_loan_application", status |-> r.status]
        /\ UNCHANGED <<lifeVars, featVars, wr, obs, session>>

---------------------------------------------------------------------------
(* Initial states of the lifecycle: a fresh checkout (no manifest, with or  *)
(* without the shipped unversioned artifacts), or a deployment on which     *)
(* retrain_if_needed has run once, at second 1; the scorers have been       *)
(* loaded at startup.                                                       *)

TzChoices == {0, 1}     \* hours the local clock is ahead of UTC

SeedManifest == [fmt |-> "list", entries |-> <<AgentEntryAt(1, 1)>>]

SeedFiles == ArtifactsOf(1, 1) \cup ArtifactsOf(LegacyVer, 1)

NoRun == [uid |-> 0, kind |-> "none", status |-> "none", ready |-> FALSE,
          inclOrig |-> FALSE, save |-> FALSE, defaults |-> FALSE]

InitLife ==
    /\ env \in [tz : TzChoices, dataset : BOOLEAN, app : {"main", "routes"}]
    /\ \E seeded \in BOOLEAN, shipped \in BOOLEAN :
          /\ manifest = IF seeded THEN SeedManifest
                        ELSE [fmt |-> "absent", entries |-> <<>>]
          /\ files = IF seeded THEN SeedFiles
                     ELSE IF shipped THEN ArtifactsOf(LegacyVer, 0) ELSE {}
    /\ clock = StartClock
    /\ db = [total |-> 0, labeled |-> 0]
    /\ runs = 0
    /\ lastRun = NoRun
    /\ predictor = LoadModel(manifest, files)
    /\ dynamic_predictor = LoadModel(manifest, files)
    /\ rpc = [r \in Reloads |-> "idle"]
    /\ faults = 0
    /\ req = IdleReq

\* Spec: the trainers and the manifest
Init == InitLife /\ env.app = "routes" /\ FeatIdle /\ IoIdle /\ FnIdle

Next ==
    \/ \E minS \in MinSamplesChoices, pct \in MinPctChoices,
          inclOrig \in BOOLEAN, save \in BOOLEAN, fitOk \in BOOLEAN :
          RetrainModel(minS, pct, inclOrig, save, fitOk)
    \/ \E fitOk \in BOOLEAN : RetrainIfNeeded(fitOk)
    \/ \E fitOk \in BOOLEAN : TrainModel(fitOk)
    \/ Tick
    \/ \E s \in ImportShapes : ImportRecords(s[1], s[2])

Spec == Init /\ [][Next]_vars

\* SpecLoad: loading and reloading the live scorers while trainers run and
\* artifacts get lost
InitLoad == InitLife /\ env.tz = 0 /\ env.dataset /\ FeatIdle /\ IoIdle /\ FnIdle

NextLoad ==
    \/ /\ runs < MaxLoadRuns
       /\ \E inclOrig \in BOOLEAN, fitOk \in BOOLEAN :
             RetrainModel(MinSamplesDefault, MinFeedbackPctDefault, inclOrig, TRUE, fitOk)
    \/ runs < MaxLoadRuns /\ RetrainIfNeeded(TRUE)
    \/ runs < MaxLoadRuns /\ TrainModel(TRUE)
    \/ \E r \in Reloads : ReloadStatic(r)
    \/ \E r \in Reloads : ReloadDynamic(r)
    \/ \E f \in files, how \in {"missing", "bad"} : LoseArtifact(f, how)

SpecLoad == InitLoad /\ [][NextLoad]_vars

\* SpecBatch: batch scoring requests while the scorers are reloaded
NextBatch ==
    \/ runs < MaxLoadRuns /\ RetrainModel(MinSamplesDefault, MinFeedbackPctDefault, TRUE, TRUE, TRUE)
    \/ \E r \in Reloads : ReloadStatic(r)
    \/ \E r \in Reloads : ReloadDynamic(r)
    \/ \E n \in 1..MaxItems, expl \in BOOLEAN : BatchBegin(n, expl)
    \/ BatchPredict
    \/ BatchMap
    \/ BatchShap
    \/ BatchEnd

SpecBatch == InitLoad /\ [][NextBatch]_vars

\* SpecFeat: one payload scored by the feature pipeline, before and after
\* the column list is retrained and reloaded
InitFeat ==
    /\ InitLife /\ env.tz = 0 /\ env.app = "routes" /\ manifest.fmt = "list"
    /\ raw \in Payloads
    /\ \E statsFile \in BOOLEAN :
          imputer = [stats_file |-> statsFile, dataset_file |-> env.dataset]
    /\ columns = [source |-> "retrain_agent", names |-> ShippedColumns]
    /\ pending = NoColumns
    /\ store = {}
    /\ scored = NoScore
    /\ IoIdle /\ FnIdle

NextFeat ==
    \/ PredictDynamic
    \/ \E p \in store : SubmitFeedback(p)
    \/ \E inclOrig \in BOOLEAN : RetrainColumns(inclOrig)
    \/ ReloadColumns

SpecFeat == InitFeat /\ [][NextFeat]_vars

\* SpecWrite: overlapping retraining runs write the manifest step by step
\* while it is read
InitWrite == InitLoad /\ env.app = "routes"

NextWrite ==
    \/ \E w \in Writers : SaveBegin(w)
    \/ \E w \in Writers : SaveArtifacts(w)
    \/ \E w \in Writers : ManifestLoad(w)
    \/ \E w \in Writers : ManifestOpen(w)
    \/ \E w \in Writers : ManifestFlush(w)
    \/ \E w \in Writers, garbled \in BOOLEAN : ManifestClose(w, garbled)
    \/ \E w \in Writers : Crash(w)
    \/ ReadManifest

SpecWrite == InitWrite /\ [][NextWrite]_vars

\* SpecPredict: one scoring call on every estimator output of the model
InitPredict ==
    /\ InitLife /\ env = [tz |-> 0, dataset |-> TRUE, app |-> "routes"]
    /\ manifest.fmt = "list"
    /\ FeatIdle /\ IoIdle
    /\ call \in EstimatorOutputs /\ ret = <<>>

NextPredict == Predict

SpecPredict == InitPredict /\ [][NextPredict]_vars

\* SpecDrift: one drift check on every table and input of the model
InitDrift ==
    /\ InitLife /\ env = [tz |-> 0, dataset |-> TRUE, app |-> "routes"]
    /\ manifest.fmt = "list"
    /\ FeatIdle /\ IoIdle
    /\ call \in DriftCalls /\ ret = <<>>

NextDrift == CheckDrift

SpecDrift == InitDrift /\ [][NextDrift]_vars

\* SpecImpute: impute applied to every payload, and again to its result
InitImpute ==
    /\ InitLife /\ env.tz = 0 /\ env.app = "routes" /\ manifest.fmt = "list"
    /\ raw = <<>>
    /\ \E statsFile \in BOOLEAN :
          imputer = [stats_file |-> statsFile, dataset_file |-> env.dataset]
    /\ columns = [source |-> "retrain_agent", names |-> ShippedColumns]
    /\ pending = NoColumns
    /\ store = {}
    /\ scored = NoScore
    /\ IoIdle
    /\ \E data \in RawInputs : call = [data |-> data, round |-> 1]
    /\ ret = <<>>

NextImpute ==
    \/ Impute
    \/ Resubmit

SpecImpute == InitImpute /\ [][NextImpute]_vars

\* SpecExplain: the attribution map of one scoring call, static or dynamic
InitExplain ==
    /\ InitLife /\ env = [tz |-> 0, dataset |-> TRUE, app |-> "routes"]
    /\ manifest.fmt = "list"
    /\ FeatIdle /\ IoIdle
    /\ call \in ExplainCalls /\ ret = <<>>

NextExplain ==
    \/ ExplainStatic
    \/ ExplainDynamic

SpecExplain == InitExplain /\ [][NextExplain]_vars

\* SpecServe: scoring requests and reload triggers of the routes application
\* beside a retraining run and lost artifacts
InitServe ==
    /\ InitLife /\ env.tz = 0 /\ env.dataset /\ env.app = "routes"
    /\ FeatIdle /\ IoIdle
    /\ call = <<>> /\ ret = NoResponse

NextServe ==
    \/ runs < MaxLoadRuns /\ RetrainModel(MinSamplesDefault, MinFeedbackPctDefault, TRUE, TRUE, TRUE)
    \/ \E f \in files, how \in {"missing", "bad"} : LoseArtifact(f, how)
    \/ \E est \in ServedOutputs, dbOk \in BOOLEAN : ScoreAndStore(est, dbOk)
    \/ ReloadModel

SpecServe == InitServe /\ [][NextServe]_vars

\* SpecBatchResult: the response of one batch scoring request, in either
\* application
InitBatchResult ==
    /\ InitLife /\ env.tz = 0 /\ env.dataset /\ manifest.fmt = "list"
    /\ FeatIdle /\ IoIdle
    /\ call \in BatchRequests /\ ret = <<>>

NextBatchResult ==
    \/ PredictRiskBatchRoutes
    \/ PredictRiskBatchMain

SpecBatchResult == InitBatchResult /\ [][NextBatchResult]_vars

\* SpecImport: one bulk import, in either application
InitImport == InitLife /\ env.tz = 0 /\ FeatIdle /\ IoIdle /\ FnIdle

NextImport ==
    \/ \E n \in Chunks : ImportBegin(n)
    \/ InsertApplications
    \/ InsertPredictions
    \/ AddPrediction
    \/ CommitChunk
    \/ ChunkFails

SpecImport == InitImport /\ [][NextImport]_vars

\* SpecReadiness: one readiness check of a predictions table
InitReadiness ==
    /\ InitLife /\ env = [tz |-> 0, dataset |-> TRUE, app |-> "routes"]
    /\ manifest.fmt = "list"
    /\ FeatIdle /\ IoIdle
    /\ call \in ReadinessCalls /\ ret = <<>>

NextReadiness == CheckReadiness

SpecReadiness == InitReadiness /\ [][NextReadiness]_vars

\* SpecTrigger: retraining triggers on a growing predictions table, in
\* either application
InitTrigger ==
    /\ InitLife /\ env.tz = 0 /\ env.dataset
    /\ FeatIdle /\ IoIdle
    /\ call = <<>> /\ ret = NoResponse

NextTrigger ==
    \/ \E s \in ImportShapes : ImportRecords(s[1], s[2])
    \/ \E minS \in MinSamplesChoices, pct \in MinPctChoices, fitOk \in BOOLEAN :
          StartRetraining(minS, pct, fitOk)
    \/ \E minS \in MinSamplesChoices, pct \in MinPctChoices, fitOk \in BOOLEAN :
          RetrainFromDatabase(minS, pct, fitOk)

SpecTrigger == InitTrigger /\ [][NextTrigger]_vars

\* SpecSchema: inserts of loan applications and column additions
InitSchema ==
    /\ InitLife /\ env = [tz |-> 0, dataset |-> TRUE, app |-> "routes"]
    /\ manifest.fmt = "list"
    /\ FeatIdle /\ IoIdle
    /\ call = <<>> /\ ret = NoResponse

NextSchema ==
    \/ \E c \in ColumnNames : AddColumnIfNotExists(c)
    \/ \E d \in ApplicationData : CreateLoanApplication(d)

SpecSchema == InitSchema /\ [][NextSchema]_vars

\* SpecSave: overlapping retraining runs write their artifacts file by file
\* and then the manifest, while the clock advances and bundles are loaded
InitSave == InitLoad /\ env.app = "routes" /\ manifest.fmt = "list"

NextSave ==
    \/ \E w \in Writers : SaveBegin(w)
    \/ \E w \in Writers : ArtifactOpen(w)
    \/ \E w \in Writers : ArtifactClose(w)
    \/ \E w \in Writers : ManifestLoad(w)
    \/ \E w \in Writers : ManifestOpen(w)
    \/ \E w \in Writers : ManifestClose(w, FALSE)
    \/ Tick
    \/ LoadNewest

SpecSave == InitSave /\ [][NextSave]_vars

---------------------------------------------------------------------------
(* Claims about the manifest and the trainers (Spec) *)

\* a is a subsequence of b: the elements of a occur in b in the same order
RECURSIVE IsSubSeq(_, _)
IsSubSeq(a, b) ==
    IF a = <<>> THEN TRUE
    ELSE IF b = <<>> THEN FALSE
    ELSE IF Head(a) = Head(b) THEN IsSubSeq(Tail(a), Tail(b))
    ELSE IsSubSeq(a, Tail(b))

\* a training run has just ended
RunEnded == lastRun'.uid # lastRun.uid

\* C1: no model-producing operation removes, rewrites or reorders an entry
\* of the manifest: every entry present before a step is present after it,
\* unmodified and in the same relative order, and a manifest that is a list
\* stays a list.
C1_ManifestAppendOnly ==
    [][/\ IsSubSeq(manifest.entries, manifest'.entries)
       /\ (manifest.fmt = "list" => manifest'.fmt = "list")]_vars

\* C2: a retrain_model / retrain_from_database run with default arguments
\* that finds the store not ready does not succeed (it returns the not-ready
\* result; a raised error is counted as a refusal here) and writes neither
\* an artifact file nor a manifest entry.
C2_NotReadyNoMutation ==
    [][(RunEnded /\ lastRun'.kind = "db" /\ lastRun'.defaults /\ ~lastRun'.ready)
        => /\ lastRun'.status # "success"
           /\ manifest' = manifest
           /\ files' = files]_vars

\* C3: every successful retraining run that saves its model makes the
\* manifest one entry longer, and the last entry afterwards is the one this
\* run appended.
C3_OneEntryPerRun ==
    [][(RunEnded /\ lastRun'.kind \in {"db", "agent"} /\ lastRun'.status = "success"
        /\ lastRun'.save)
        => /\ Len(manifest'.entries) = Len(manifest.entries) + 1
           /\ Last(manifest'.entries).uid = lastRun'.uid]_vars

---------------------------------------------------------------------------
(* Claims about loading, reloading and scoring (SpecLoad, SpecBatch) *)

\* every part of scorer p was read from the paths of the entry p resolved
FromItsEntry(p) == \A k \in Kinds : p[k].ver = p.entry.ver

\* C7: a load that resolved a manifest entry never yields a usable bundle
\* with a part that does not come from that entry (a missing or unreadable
\* artifact makes the load fail instead).
C7_BundleFromOneEntry ==
    \A p \in {predictor, dynamic_predictor} :
        (p.loaded /\ p.entry.uid # 0) => FromItsEntry(p)

\* C8: every part a scoring request uses (column list, scaler, estimator,
\* attribution) is the part of the bundle captured when the request started.
C8_OneBundlePerRequest ==
    \A u \in req.used : u.src = req.cap[u.part]

SameBundle(p, q) == \A k \in Kinds : p[k] = q[k]

\* C9: a reader of ModelManager always finds the static and the dynamic
\* scorer holding the same bundle.
C9_ConsistentPair ==
    (env.app = "routes" /\ predictor.loaded /\ dynamic_predictor.loaded)
        => SameBundle(predictor, dynamic_predictor)

\* C10: a step of a training run (successful, refused or failed) leaves both
\* live scorers as they were.
C10_RetrainLeavesLive ==
    [][(runs' # runs) => (predictor' = predictor /\ dynamic_predictor' = dynamic_predictor)]_vars

\* a run has appended a newer entry and the live scorers still hold the
\* bundle loaded before it
C10_Witness ==
    /\ lastRun.kind = "db" /\ lastRun.status = "success"
    /\ manifest.fmt = "list" /\ Last(manifest.entries).uid = lastRun.uid
    /\ predictor.loaded /\ predictor.entry.uid # lastRun.uid
    /\ dynamic_predictor.loaded /\ dynamic_predictor.entry.uid # lastRun.uid

---------------------------------------------------------------------------
(* Claims about the feature pipeline (SpecFeat) *)

ColumnsOf(row) == [i \in DOMAIN row |-> row[i][1]]

\* the name prepare_features gives the indicator column of a stored label
TrainedColumn(field, label) == get_dummies(field, {Upper(label)}, FALSE)[1]

\* C4: once a bundle trained by the Retrainer is live, every categorical
\* value the request supplies sets, in the scored row, the indicator column
\* that prepare_features named for that field and value.
C4_EncodingsAgree ==
    scored.source = "database_retraining" =>
        \A f \in Range(CatFields) :
            (f \in DOMAIN raw /\ TrainedColumn(f, raw[f]) \in Range(ColumnsOf(scored.row)))
                => \E i \in DOMAIN scored.row :
                      scored.row[i] = <<TrainedColumn(f, raw[f]), 1>>

\* C5: the row a scoring call builds has exactly the live bundle's columns,
\* in the bundle's order; a column the mapping produced keeps its value, a
\* column it did not produce is 0 (and a produced column that is not
\* expected is therefore absent).
C5_FillExact ==
    [][(scored'.n # scored.n) =>
          /\ ColumnsOf(scored'.row) = columns.names
          /\ \A i \in DOMAIN scored'.row :
                scored'.row[i][2] =
                    IF scored'.row[i][1] \in DOMAIN scored'.mapped
                    THEN scored'.mapped[scored'.row[i][1]] ELSE 0]_vars

\* the empty payload has been scored: some expected columns were not
\* produced and some produced column was not expected
C5_Witness ==
    /\ scored.n > 0
    /\ raw = <<>>
    /\ \E c \in DOMAIN scored.mapped : c \notin Range(ColumnsOf(scored.row))
    /\ \E i \in DOMAIN scored.row : scored.row[i][1] \notin DOMAIN scored.mapped

\* C6: the imputed vector has a number for each of the seven numeric fields
\* and, for each of the four categorical fields, a label of that field's
\* known set.
C6_ImputedValid ==
    scored.n > 0 =>
        /\ \A f \in Range(NumericFields) :
              f \in DOMAIN scored.imputed /\ scored.imputed[f] \in Int
        /\ \A f \in Range(CatFields) :
              /\ f \in DOMAIN scored.imputed
              /\ scored.imputed[f] \in categorical_features[DatasetColumn[f]]

---------------------------------------------------------------------------
(* Claims about overlapping writers and readers of the manifest (SpecWrite) *)

HasEntryOf(w) == \E i \in DOMAIN manifest.entries : manifest.entries[i].uid = wr[w].uid

\* C11: once two overlapping retraining runs have both written the
\* manifest, the entries of both runs are in it.
C11_NoLostAppend ==
    (\A w \in Writers : wr[w].pc = "done")
        => (manifest.fmt = "list" /\ \A w \in Writers : HasEntryOf(w))

\* C12: a reader of manifest.json never finds a document that does not
\* parse: it finds the document as it was before an append or the document
\* with the complete new entry.
C12_ReaderSeesWholeDocument == obs.result # "error"

\* C13: when a retraining run that runs alone is killed, the manifest is
\* its content before the run, or that content plus the run's complete entry.
C13_CrashLeavesManifestWhole ==
    \A w \in Writers :
        (wr[w].pc = "crashed" /\ \A v \in Writers \ {w} : wr[v].pc = "idle")
            => \/ manifest = wr[w].before
               \/ manifest = UpdateManifest(wr[w].before, EntryOf(w))

\* C14: the version ids of the manifest's entries are strictly increasing in
\* append order, so no two entries share a version id (and with it the paths
\* of their artifact files), also for runs that start within the same second
C14_VersionsIncrease ==
    manifest.fmt = "list" =>
        \A i, j \in DOMAIN manifest.entries :
            i < j => manifest.entries[i].ver < manifest.entries[j].ver

---------------------------------------------------------------------------
(* Claims about predict (SpecPredict) *)

C16_ProbabilityInRange ==
    ret # <<>> => (0 <= ret.prob /\ ret.prob <= Unit)

---------------------------------------------------------------------------
(* Claims about _check_drift (SpecDrift) *)

\* the warnings of the finished check that name a field
WarningsOf(feat) == SelectSeq(ret.warnings, LAMBDA w : w.feat = feat)

\* the field is in the input with a numeric value and in the table with
\* min and max
Compared(feat) ==
    /\ feat \in DOMAIN call.data /\ feat \in DOMAIN call.FEATURE_STATS
    /\ float(call.data[feat]).ok
    /\ {"min", "max", "mean", "std"} \subseteq DOMAIN call.FEATURE_STATS[feat]

\* C17: at most one warning per field; a numeric field in both the input and
\* the table is warned about iff its value is below min or above max, or
\* else iff it is outside mean +- 3 std; a field absent from either side or
\* not numeric is not warned about
C17_DriftRule ==
    ret # <<>> =>
        \A feat \in Range(DriftFields) :
            /\ Len(WarningsOf(feat)) <= 1
            /\ Compared(feat) =>
                  LET s == call.FEATURE_STATS[feat]
                      v == float(call.data[feat]).val
                  IN  WarningsOf(feat) # <<>> <=>
                          \/ v < s.min \/ v > s.max
                          \/ v < s.mean - 3 * s.std \/ v > s.mean + 3 * s.std
            /\ (\/ feat \notin DOMAIN call.data
                \/ feat \notin DOMAIN call.FEATURE_STATS
                \/ ~float(call.data[feat]).ok) => WarningsOf(feat) = <<>>

\* a value inside [min, max] has been warned about by the 3-sigma rule while
\* the other field, above its max, got its one warning
C17_Witness ==
    /\ ret # <<>> /\ Len(ret.warnings) = 2
    /\ ret.warnings[1].outside = "min/max" /\ ret.warnings[2].outside = "3-sigma"
    /\ Compared("loan_amnt")
    /\ ret.warnings[1].val > call.FEATURE_STATS["person_age"].mean
                                 + 3 * call.FEATURE_STATS["person_age"].std

\* C18: a value equal to a field's min or max gets no warning for the field,
\* and a value one unit below the min gets one
C18_BoundaryNotFlagged ==
    ret # <<>> =>
        \A feat \in Range(DriftFields) :
            Compared(feat) =>
                LET s == call.FEATURE_STATS[feat]
                    v == float(call.data[feat]).val
                IN  /\ (v = s.min \/ v = s.max) => WarningsOf(feat) = <<>>
                    /\ v = s.min - 1 => Len(WarningsOf(feat)) = 1

---------------------------------------------------------------------------
(* Claims about impute (SpecImpute) *)

\* the source the log names for a field, "none" when the log has no line for
\* it
LoggedSource(field) ==
    LET lines == SelectSeq(ret.log, LAMBDA l : l.field = field)
    IN  IF lines = <<>> THEN "none" ELSE lines[1].source

\* loan_percent_income is absent from the input and both operands of the
\* derivation are present, the income not zero
Derives ==
    /\ "loan_percent_income" \notin DOMAIN call.data
    /\ "loan_amnt" \in DOMAIN call.data /\ "person_income" \in DOMAIN call.data
    /\ call.data["person_income"] # 0

\* C19: every missing field takes the first source that applies: the
\* derivation (loan_percent_income = loan_amnt / person_income, when both
\* are present and the income is not zero), else the historical median or
\* mode when the reference corpus is loaded, else a later source
C19_FirstApplicableSource ==
    ret # <<>> =>
        /\ Derives <=> LoggedSource("loan_percent_income")
                           = "derived from loan_amnt/person_income"
        /\ Derives => ret.imputed["loan_percent_income"]
                          = (call.data["loan_amnt"] * 100) \div call.data["person_income"]
        /\ \A f \in Range(NumericFields) \ DOMAIN call.data :
              (imputer.dataset_file /\ ~(f = "loan_percent_income" /\ Derives)) =>
                  /\ LoggedSource(f) = "historical median"
                  /\ ret.imputed[f] = HistoricalMedians[f].median
        /\ \A f \in Range(CatFields) \ DOMAIN call.data :
              IF imputer.dataset_file
              THEN /\ LoggedSource(f) = "historical mode"
                   /\ ret.imputed[f] = HistoricalModes[DatasetColumn[f]]
              ELSE /\ LoggedSource(f) = "safe default"
                   /\ ret.imputed[f] = categorical_defaults[f]

\* C20: impute applied to a dict returned by impute, and to any dict with
\* the eleven known fields, returns the dict unchanged with an empty log
C20_ImputeIdempotent ==
    (ret # <<>> /\ (call.round > 1
                    \/ Range(NumericFields) \cup Range(CatFields) \subseteq DOMAIN call.data)) =>
        /\ ret.imputed = call.data
        /\ ret.log = <<>>

\* impute has run on the result of a run that derived loan_percent_income and
\* filled other fields
C20_Witness ==
    /\ ret # <<>> /\ call.round = 2
    /\ ret.imputed["person_income"] = 80000 /\ ret.imputed["loan_percent_income"] = 20
    /\ ret.imputed["person_age"] = 26 /\ ret.imputed["loan_grade"] = "A"
    /\ ret.log = <<>>

---------------------------------------------------------------------------
(* Claims about the attribution map (SpecExplain) *)

\* C21: on both paths the attribution map has one entry per column of the
\* scored row, each key with the value computed for that column; the map is
\* shorter only when the explainer's row is, and then a warning is logged
C21_AttributionPerColumn ==
    ret # <<>> =>
        /\ \A i \in DOMAIN ret.shap_explanation :
              LET k == ret.shap_explanation[i][1]
                  v == ret.shap_explanation[i][2]
              IN  v \in DOMAIN call.feature_names /\ call.feature_names[v] = k
        /\ ~call.short => Len(ret.shap_explanation) = Len(call.feature_names)
        /\ call.short => (/\ Len(ret.shap_explanation) = Len(call.feature_names) - 1
                          /\ ret.warned)

---------------------------------------------------------------------------
(* Claims about served requests (SpecServe) *)

\* a request of the named kind has just been served
Served(op) == ret'.n # ret.n /\ ret'.op = op

\* C22: the version stored in a PredictionRecord is the version of the
\* bundle whose estimator produced the score (here: a bundle loaded from a
\* manifest entry), also when a newer manifest entry has been appended and
\* not reloaded
C22_RecordNamesScoringBundle ==
    [][(/\ Served("predict_risk_dynamic") /\ ret'.stored
        /\ dynamic_predictor.model.ver # LegacyVer) =>
          /\ ret'.model_version.known
          /\ ret'.model_version.ver = dynamic_predictor.model.ver]_vars

\* C25: when storing the PredictionRecord fails after the scoring, the
\* caller gets the success response with the risk level, probability and
\* decision of the scoring
C25_StoreFailureNotPropagated ==
    [][(Served("predict_risk_dynamic") /\ ~ret'.stored) =>
          LET result == predict(call'.est, 600000)
          IN  ret'.response = [status |-> "success", risk_level |-> result.risk_level,
                               probability_default |-> result.prob,
                               binary_prediction |-> result.pred]]_vars

\* a scoring whose record could not be stored has been answered
C25_Witness ==
    /\ ret.op = "predict_risk_dynamic" /\ ~ret.stored
    /\ ret.response.status = "success" /\ ret.response.risk_level = "High Risk"

\* the live scorer holds the three artifacts of the manifest's last entry
LiveIsCurrent(p) ==
    /\ p.loaded
    /\ \A part \in {p.model, p.scaler, p.features} :
          part.ver = Last(manifest.entries).ver /\ part.uid = Last(manifest.entries).uid

\* C26: with an entry in the manifest, the reload trigger reports success
\* only if afterwards the live scorers hold the bundle of the manifest's
\* last entry, and so reports failure when that bundle could not be loaded
C26_ReloadReportsOutcome ==
    [][(Served("reload_model") /\ manifest.fmt = "list" /\ manifest.entries # <<>>) =>
          (ret'.status = "success" =>
              LiveIsCurrent(predictor') /\ LiveIsCurrent(dynamic_predictor'))]_vars

---------------------------------------------------------------------------
(* Claims about the batch response (SpecBatchResult) *)

\* C23: for k requests the batch endpoint returns k entries in one list, the
\* i-th being the result or the error of the i-th request
C23_OneEntryPerItemInOrder ==
    ret # <<>> =>
        /\ Len(ret.results) = Len(call.applications)
        /\ \A i \in DOMAIN ret.results :
              /\ ret.results[i].index = i - 1
              /\ i \in DOMAIN call.applications
                    => (ret.results[i].status = "error"
                            <=> call.applications[i].predict_raises)

---------------------------------------------------------------------------
(* Claims about the bulk import (SpecImport) *)

\* all rows of chunk b are stored (the routes import stores a loan
\* application and a prediction per row, main.py a prediction)
Whole(b) ==
    /\ RowsOf(b) \subseteq tables.predictions
    /\ env.app = "routes" => RowsOf(b) \subseteq tables.loan_applications

\* no row of chunk b is stored
Absent(b) ==
    /\ RowsOf(b) \cap tables.predictions = {}
    /\ RowsOf(b) \cap tables.loan_applications = {}

\* C24: when a batch of a bulk import fails, every batch committed before it
\* is fully present and the failed batch is fully absent; no batch is ever
\* stored in part
C24_NoPartialBatch ==
    \A b \in Chunks :
        /\ Whole(b) \/ Absent(b)
        /\ b \in session.failed => Absent(b)
        /\ (session.pc # "idle" /\ b < session.chunk /\ b \notin session.failed)
              => Whole(b)

\* the second chunk has failed after the first was committed
C24_Witness ==
    /\ session.pc = "failed" /\ session.failed = {2}
    /\ Whole(1) /\ tables.predictions # {}

---------------------------------------------------------------------------
(* Claims about the readiness check (SpecReadiness) *)

\* C27: is_ready = (total >= min_samples and feedback_count / total >=
\* min_feedback_ratio), the ratio being 0 for no records, and samples_needed =
\* max(0, min_samples - total), where total counts every stored prediction
\* record, labeled or not
C27_ReadinessOverAllRecords ==
    ret # <<>> =>
        LET total == Count(call.store, FALSE)
            feedback_count == Count(call.store, TRUE)
            ratio_ok == IF total > 0
                        THEN feedback_count * 100 >= call.min_feedback_pct * total
                        ELSE call.min_feedback_pct <= 0
        IN  /\ ret.is_ready = (total >= call.min_samples /\ ratio_ok)
            /\ ret.samples_needed = Max(0, call.min_samples - total)

\* the scenario of C27: 40 records, 1 labeled, thresholds 100 and 0.1
C27_Scenario ==
    (/\ ret # <<>>
     /\ Count(call.store, FALSE) = 40 /\ Count(call.store, TRUE) = 1
     /\ call.min_samples = 100 /\ call.min_feedback_pct = 10)
        => ~ret.is_ready /\ ret.samples_needed = 60

---------------------------------------------------------------------------
(* Claims about the retraining trigger (SpecTrigger) *)

\* C28: the trigger decides ready or not ready with the min_samples and
\* min_feedback_ratio of the request; when not ready it starts no run (and
\* answers not-ready with the readiness snapshot), when ready it runs
C28_TriggerUsesRequestThresholds ==
    [][Served("start_retraining") =>
          /\ ret'.started = IsReady(call'.min_samples, call'.min_feedback_pct)
          /\ ~ret'.started => runs' = runs]_vars

---------------------------------------------------------------------------
(* Claims about the dynamic schema (SpecSchema) *)

\* the keys of the inserted dict that are not columns of the ORM model
DynamicKeys == Keys(call'.application_data) \ OrmColumns

\* the call was accepted: every dynamic key is a column afterwards, no column
\* was lost, and the new row holds the supplied values
Accepted ==
    /\ ret'.status = "ok"
    /\ DynamicKeys \subseteq tables'.columns
    /\ tables.columns \subseteq tables'.columns
    /\ \E row \in tables'.loan_applications \ tables.loan_applications :
          row.values = ValuesOf(call'.application_data)

\* add_column_if_not_exists on a column that exists changes nothing and does
\* not fail
AddIsIdempotent ==
    (Served("add_column_if_not_exists") /\ call'.column_name \in tables.columns) =>
        (ret'.status = "ok" /\ tables' = tables)

---------------------------------------------------------------------------
(* Claims about the order of the artifact and manifest writes (SpecSave) *)

\* the file of kind k that entry e names is on disk and whole
Written(e, k) == FileStatus(files, k, e.ver) = "ok"

\* C30: whenever a manifest entry is visible to a reader, the estimator, the
\* scaler and the column-list file it names have been written completely
C30_ArtifactsBeforeEntry ==
    manifest.fmt = "list" =>
        \A i \in DOMAIN manifest.entries :
            \A k \in Kinds : Written(manifest.entries[i], k)

====
